---- MODULE Spec2Model ----
(***************************************************************************)
(* Model of the sales-tracker data access layer (src/services/database.ts, *)
(* second copy of the module, lines 451-1617): six SQLite tables behind a  *)
(* single module-level connection, and the repository / workflow functions *)
(* that read and write them.  Every `await db.xxxAsync(...)` is one        *)
(* statement of the store; a call of a multi-statement function is a       *)
(* process whose position (pc) is the statement it will issue next.        *)
(*                                                                         *)
(* Lists returned by queries are modelled as the set of their rows (ORDER  *)
(* BY is not modelled).  Text values are strings, SQL NULL in a text       *)
(* column is Null, SQL NULL in an integer column is NullId, and dates are  *)
(* ISO strings as in the source.                                           *)
(***************************************************************************)
EXTENDS Integers, FiniteSets, Sequences, Bags, TLC

\* ---------------------------------------------------------------- bounds
\* Total number of repository calls issued in one behaviour.
MaxCalls == 3
\* ---------------------------------------------------------------- domains
Users == {1, 2}
Procs == {"p1", "p2"}
SeqProcs == {"p1"}
\* Row ids callers pass as arguments.
IdArgs == {1, 2}

NullId == 0
Null == "NULL"

EntityTypes == {"client", "prospect", "phoneNumber"}
TableNames == {"Users", "Clients", "Prospects", "Sales", "FollowUps", "PhoneNumbers", "CallLogs"}

Dates == {"2025-01-01", "2025-01-02"}
Numbers == {"0700111222"}

ClientInputs ==
  {[name |-> "Acme", phone |-> "0711", email |-> "acme@x", company |-> "AcmeCo",
    industry |-> "Retail"]}

ProspectInputs ==
  {[name |-> "Pat", phone |-> "0722", email |-> "pat@x", company |-> "PatCo",
    status |-> "New", followUpDate |-> "2025-01-01"]}

SaleDataInputs ==
  {[date |-> "2025-01-02", amount |-> 100, productOrService |-> "Widget"]}

ProspectDataInputs ==
  {[name |-> "Lee", email |-> "lee@x", company |-> "LeeCo", status |-> "New",
    followUpDate |-> "2025-01-02"]}

SaleInputs ==
  {[clientId |-> c, date |-> "2025-01-01", amount |-> 40, productOrService |-> "Gadget"] :
     c \in IdArgs}

FollowUpInputs ==
  {[entityId |-> e, entityType |-> t, date |-> "2025-01-02", notes |-> "call back",
    isCompleted |-> 0] : e \in IdArgs, t \in EntityTypes}

CallDataInputs ==
  {[number |-> n,
    logData |-> [date |-> d, feedback |-> "Connected-Lead", duration |-> 60,
                 shortNotes |-> "keen", nextFollowUpDate |-> f]] :
     n \in Numbers, d \in Dates, f \in {Null, "2025-02-01"}}

\* Partial update objects: a field that is absent is `undefined` in the source.
NoUpdates == [k \in {} |-> ""]
ClientUpdates == {NoUpdates, [name |-> ""]}
ProspectUpdates == {NoUpdates, [status |-> "Qualified"]}
SaleUpdates == {NoUpdates, [amount |-> 250]}
CallLogUpdates == {NoUpdates, [nextFollowUpDate |-> Null]}
FollowUpUpdates == {[date |-> "2025-03-01"], [notes |-> ""], [date |-> "", notes |-> "moved"]}
\* status: Prospect["status"]
StatusInputs == {"Contacted", "Won"}

\* ---------------------------------------------------------------- state
VARIABLES
  Clients,       \* rows of table Clients
  Prospects,     \* rows of table Prospects
  Sales,         \* rows of table Sales
  FollowUps,     \* rows of table FollowUps
  PhoneNumbers,  \* rows of table PhoneNumbers
  CallLogs,      \* rows of table CallLogs
  seq,           \* sqlite_sequence: last AUTOINCREMENT id handed out per table
  call,          \* per process: the repository call in flight or just returned
  calls,         \* number of calls issued so far (also the logical clock)
  user,          \* id of the signed-in user (AuthContext), on whose behalf calls are issued
  UserRows,      \* rows of table Users
  db,            \* the module-level connection: Null until openDatabaseAsync resolves
  schema,        \* TRUE when the tables exist in the database file
  initPc,        \* position of initDatabase
  PlatformOS,    \* Platform.OS
  analyticsSales, \* getAnalyticsData: the array `sales` its SELECT returned
  analyticsPc,    \* getAnalyticsData: "select" while rows arrive, "done" once computed
  topProducts,    \* getAnalyticsData: the topProducts it computed
  followUpsWithDetails, \* SalesProvider state: the follow-up list the screens and the bridge use
  scheduled,      \* the list last handed to scheduleAllFollowUpNotifications
  served,         \* number of repository calls whose SalesProvider wrapper has run to its end
  ctxPc,          \* position of the SalesProvider wrapper after its refreshData
  effectPending,  \* useNotifications: the effect on followUpsWithDetails has yet to run
  txn,            \* DatabaseService: the transaction open on the shared connection
  reminders,      \* expo-notifications: reminders scheduled, counted per FollowUp id
  sched,          \* per caller: its scheduleAllFollowUpNotifications call
  lists,          \* SalesProvider state: clients, prospects, sales, followUps, phoneNumbers, callLogs
  load            \* per captured user: the loadData call in flight

tables == <<Clients, Prospects, Sales, FollowUps, PhoneNumbers, CallLogs, seq>>
\* State outside the six entity tables and the session.
\* The in-memory part of getAnalyticsData.
analytics == <<analyticsSales, analyticsPc, topProducts>>
\* SalesProvider and the notification bridge.
provider == <<reminders, sched, lists, load>>
context == <<followUpsWithDetails, scheduled, served, ctxPc, effectPending, provider>>
others == <<UserRows, db, schema, initPc, PlatformOS, txn, analyticsSales, analyticsPc, topProducts,
            followUpsWithDetails, scheduled, served, ctxPc, effectPending, provider>>
vars == <<Clients, Prospects, Sales, FollowUps, PhoneNumbers, CallLogs, seq, call, calls, user, others>>

\* The persisted rows, as one value (used to remember the store a call started from).
DB ==
  [Users |-> UserRows, Clients |-> Clients, Prospects |-> Prospects, Sales |-> Sales,
   FollowUps |-> FollowUps, PhoneNumbers |-> PhoneNumbers, CallLogs |-> CallLogs]

EmptyDB ==
  [Users |-> {}, Clients |-> {}, Prospects |-> {}, Sales |-> {},
   FollowUps |-> {}, PhoneNumbers |-> {}, CallLogs |-> {}]

NoArgs == [none |-> TRUE]

\* const hashPassword = (password) => CryptoJS.SHA256(password).toString()
hashPassword(password) == "sha256(" \o password \o ")"

\* A row of table Users.
UserRow(id, username, passwordHash, name) ==
  [id |-> id, username |-> username, passwordHash |-> passwordHash, name |-> name]

\* The accounts of the users who sign in on the device, as signup stored them.
RegisteredUsers ==
  {UserRow(1, "ann", hashPassword("pw1"), "Ann"), UserRow(2, "bob", hashPassword("pw2"), "Bob")}

\* No transaction is open on the connection (autocommit mode).
TxnClosed == [open |-> FALSE, tables |-> EmptyDB, seq |-> [t \in TableNames |-> 0]]

\* The two callers of scheduleAllFollowUpNotifications: the SalesProvider wrappers
\* (rescheduleNotifications) and the useNotifications effect (setupNotifications).
Callers == {"mutation", "effect"}

\* useState([]) of the six entity lists of SalesProvider.
EmptyLists ==
  [clients |-> {}, prospects |-> {}, sales |-> {}, followUps |-> {}, phoneNumbers |-> {},
   callLogs |-> {}]

\* The SalesProvider right after mounting, nothing scheduled, no call in flight.
ProviderMounted ==
  /\ reminders = EmptyBag
  /\ sched = [k \in Callers |-> [pc |-> "idle", todo |-> <<>>]]
  /\ lists = EmptyLists
  /\ load = [u \in Users |-> [pc |-> "idle", lists |-> EmptyLists, details |-> {}]]

\* initDatabase has run to its end on a device: connection open, tables created.
Initialized ==
  /\ db = "open"
  /\ schema = TRUE
  /\ initPc = "done"
  /\ PlatformOS = "ios"
  /\ analyticsSales = <<>>
  /\ analyticsPc = "select"
  /\ topProducts = <<>>
  /\ followUpsWithDetails = {}
  /\ scheduled = {}
  /\ served = 0
  /\ ctxPc = "idle"
  /\ effectPending = FALSE
  /\ txn = TxnClosed
  /\ ProviderMounted

IdleCall ==
  [op |-> "none", status |-> "idle", pc |-> "none", actor |-> NullId,
   args |-> NoArgs, loc |-> NoArgs, pre |-> EmptyDB, err |-> "", ret |-> NoArgs]

Init ==
  /\ Clients = {}
  /\ Prospects = {}
  /\ Sales = {}
  /\ FollowUps = {}
  /\ PhoneNumbers = {}
  /\ CallLogs = {}
  /\ seq = [t \in TableNames |-> IF t = "Users" THEN Cardinality(RegisteredUsers) ELSE 0]
  /\ call = [p \in Procs |-> IdleCall]
  /\ calls = 0
  /\ user \in Users
  /\ UserRows = RegisteredUsers
  /\ Initialized

\* ---------------------------------------------------------------- helpers
\* result.lastInsertRowId of an INSERT into an AUTOINCREMENT table.
\* A rowid column without AUTOINCREMENT: one more than the largest id still stored.
NextRowid(t) ==
  IF DB[t] = {} THEN 1
  ELSE (CHOOSE r \in DB[t] : \A s \in DB[t] : s.id <= r.id).id + 1

NextId(t) == seq[t] + 1

\* db.getFirstAsync("SELECT * FROM T WHERE id = ?"): the row, or NullRow.
NullRow == [id |-> NullId]
RowById(T, id) == IF \E r \in T : r.id = id THEN CHOOSE r \in T : r.id = id ELSE NullRow

\* new Date().toISOString(): the logical time of the call.
Now == calls

\* A call is issued: the synchronous prefix of the async function up to its first await.
Started(p, op, actor, args, pc) ==
  [op |-> op, status |-> "running", pc |-> pc, actor |-> actor, args |-> args,
   loc |-> NoArgs, pre |-> DB, err |-> "", ret |-> NoArgs]

\* The call passes `if (!db) throw ...` and its statements find their tables.
CanBegin(p) ==
  /\ calls < MaxCalls
  /\ call[p].status # "running"
  /\ db # Null
  /\ schema

\* The call returns its value / rethrows from its catch block.
Returned(c, ret) == [c EXCEPT !.status = "ok", !.pc = "done", !.ret = ret]
Thrown(c, err) == [c EXCEPT !.status = "failed", !.pc = "done", !.err = err]

At(p, op, pc) ==
  /\ call[p].status = "running"
  /\ call[p].op = op
  /\ call[p].pc = pc

\* A function whose body is one awaited statement: issued, executed and returned in one step.
Single(p, op, actor, args, ret) ==
  [call EXCEPT ![p] = Returned(Started(p, op, actor, args, "done"), ret)]

\* ---------------------------------------------------------------- addProspect
NewProspectRow(id, userId, prospect) ==
  [id |-> id, userId |-> userId, name |-> prospect.name, phone |-> prospect.phone,
   email |-> prospect.email, company |-> prospect.company, status |-> prospect.status,
   followUpDate |-> prospect.followUpDate]

addProspect(p, userId, prospect) ==
  /\ CanBegin(p)
  /\ LET row == NewProspectRow(NextId("Prospects"), userId, prospect) IN
       /\ Prospects' = Prospects \cup {row}
       /\ seq' = [seq EXCEPT !["Prospects"] = row.id]
       /\ call' = Single(p, "addProspect", userId, [userId |-> userId, prospect |-> prospect], row)
  /\ calls' = calls + 1
  /\ UNCHANGED <<Clients, Sales, FollowUps, PhoneNumbers, CallLogs, user, others>>

\* ---------------------------------------------------------------- convertProspectToClientAndRecordSale
ClientFromProspect(id, prospect) ==
  [id |-> id, userId |-> prospect.userId, name |-> prospect.name, phone |-> prospect.phone,
   email |-> prospect.email, company |-> prospect.company, industry |-> "General"]

SaleRow(id, clientId, saleData) ==
  [id |-> id, clientId |-> clientId, date |-> saleData.date, amount |-> saleData.amount,
   productOrService |-> saleData.productOrService]

\* The call is issued with its first statement, SELECT * FROM Prospects WHERE id = ?;
\* it throws 'Prospect not found' when there is no such row.
convertProspectToClientAndRecordSale(p, actor, prospectId, saleData) ==
  /\ CanBegin(p)
  /\ LET prospect == RowById(Prospects, prospectId)
         c == Started(p, "convertProspectToClientAndRecordSale", actor,
                      [prospectId |-> prospectId, saleData |-> saleData], "insertClient")
     IN call' = [call EXCEPT ![p] =
                   IF prospect = NullRow
                     THEN Thrown(c, "Prospect not found")
                     ELSE [c EXCEPT !.loc = [prospect |-> prospect]]]
  /\ calls' = calls + 1
  /\ UNCHANGED <<tables, user, others>>

\* INSERT INTO Clients (...) from the prospect read before.
convertProspectInsertClient(p) ==
  /\ At(p, "convertProspectToClientAndRecordSale", "insertClient")
  /\ LET newClient == ClientFromProspect(NextId("Clients"), call[p].loc.prospect) IN
       /\ Clients' = Clients \cup {newClient}
       /\ seq' = [seq EXCEPT !["Clients"] = newClient.id]
       /\ call' = [call EXCEPT ![p].pc = "insertSale",
                               ![p].loc = [prospect |-> call[p].loc.prospect,
                                           newClient |-> newClient]]
  /\ UNCHANGED <<Prospects, Sales, FollowUps, PhoneNumbers, CallLogs, calls, user, others>>

\* INSERT INTO Sales (...) referencing the new client.
convertProspectInsertSale(p) ==
  /\ At(p, "convertProspectToClientAndRecordSale", "insertSale")
  /\ LET newSale == SaleRow(NextId("Sales"), call[p].loc.newClient.id, call[p].args.saleData) IN
       /\ Sales' = Sales \cup {newSale}
       /\ seq' = [seq EXCEPT !["Sales"] = newSale.id]
       /\ call' = [call EXCEPT ![p].pc = "updateStatus",
                               ![p].loc = [prospect |-> call[p].loc.prospect,
                                           newClient |-> call[p].loc.newClient,
                                           newSale |-> newSale]]
  /\ UNCHANGED <<Clients, Prospects, FollowUps, PhoneNumbers, CallLogs, calls, user, others>>

\* UPDATE Prospects SET status = 'Won' WHERE id = ?; then return {client, sale}.
convertProspectUpdateStatus(p) ==
  /\ At(p, "convertProspectToClientAndRecordSale", "updateStatus")
  /\ Prospects' = {IF r.id = call[p].args.prospectId THEN [r EXCEPT !.status = "Won"] ELSE r :
                     r \in Prospects}
  /\ call' = [call EXCEPT ![p] =
                Returned(@, [client |-> call[p].loc.newClient, sale |-> call[p].loc.newSale])]
  /\ UNCHANGED <<Clients, Sales, FollowUps, PhoneNumbers, CallLogs, seq, calls, user, others>>

\* ---------------------------------------------------------------- single-statement functions
\* `UPDATE T SET f = ? ... WHERE id = ?` built from the fields of `updates` that are not
\* undefined: exactly the listed columns of the addressed row are overwritten.
ApplyUpdates(row, updates, columns) ==
  [k \in DOMAIN row |-> IF k \in (columns \cap DOMAIN updates) THEN updates[k] ELSE row[k]]

\* The same statement without its WHERE clause.
UpdateEveryRow(T, id, updates, columns) ==
  IF (columns \cap DOMAIN updates) = {}
    THEN T
    ELSE {ApplyUpdates(r, updates, columns) : r \in T}

UpdateById(T, id, updates, columns) ==
  IF (columns \cap DOMAIN updates) = {}
    THEN T
    ELSE {IF r.id = id THEN ApplyUpdates(r, updates, columns) ELSE r : r \in T}

ClientRow(id, userId, client) ==
  [id |-> id, userId |-> userId, name |-> client.name, phone |-> client.phone,
   email |-> client.email, company |-> client.company, industry |-> client.industry]

addClient(p, userId, client) ==
  /\ CanBegin(p)
  /\ LET row == ClientRow(NextId("Clients"), userId, client) IN
       /\ Clients' = Clients \cup {row}
       /\ seq' = [seq EXCEPT !["Clients"] = row.id]
       /\ call' = Single(p, "addClient", userId, [userId |-> userId, client |-> client], row)
  /\ calls' = calls + 1
  /\ UNCHANGED <<Prospects, Sales, FollowUps, PhoneNumbers, CallLogs, user, others>>

ClientColumns == {"name", "phone", "email", "company", "industry"}

updateClient(p, actor, clientId, updates) ==
  /\ CanBegin(p)
  /\ Clients' = UpdateById(Clients, clientId, updates, ClientColumns)
  /\ call' = Single(p, "updateClient", actor, [clientId |-> clientId, updates |-> updates], NoArgs)
  /\ calls' = calls + 1
  /\ UNCHANGED <<Prospects, Sales, FollowUps, PhoneNumbers, CallLogs, seq, user, others>>

updateProspectStatus(p, actor, prospectId, status) ==
  /\ CanBegin(p)
  /\ Prospects' = {IF r.id = prospectId THEN [r EXCEPT !.status = status] ELSE r : r \in Prospects}
  /\ call' = Single(p, "updateProspectStatus", actor,
                    [prospectId |-> prospectId, status |-> status], NoArgs)
  /\ calls' = calls + 1
  /\ UNCHANGED <<Clients, Sales, FollowUps, PhoneNumbers, CallLogs, seq, user, others>>

ProspectColumns == {"name", "phone", "email", "company", "status", "followUpDate"}

updateProspect(p, actor, prospectId, updates) ==
  /\ CanBegin(p)
  /\ Prospects' = UpdateById(Prospects, prospectId, updates, ProspectColumns)
  /\ call' = Single(p, "updateProspect", actor,
                    [prospectId |-> prospectId, updates |-> updates], NoArgs)
  /\ calls' = calls + 1
  /\ UNCHANGED <<Clients, Sales, FollowUps, PhoneNumbers, CallLogs, seq, user, others>>

\* PRAGMA foreign_keys is never switched on, so the FOREIGN KEY clauses are not enforced:
\* the INSERT succeeds whatever clientId is.
addSale(p, actor, sale) ==
  /\ CanBegin(p)
  /\ LET row == SaleRow(NextId("Sales"), sale.clientId, sale) IN
       /\ Sales' = Sales \cup {row}
       /\ seq' = [seq EXCEPT !["Sales"] = row.id]
       /\ call' = Single(p, "addSale", actor, [sale |-> sale], row)
  /\ calls' = calls + 1
  /\ UNCHANGED <<Clients, Prospects, FollowUps, PhoneNumbers, CallLogs, user, others>>

SaleColumns == {"date", "amount", "productOrService"}

updateSale(p, actor, saleId, updates) ==
  /\ CanBegin(p)
  /\ Sales' = UpdateById(Sales, saleId, updates, SaleColumns)
  /\ call' = Single(p, "updateSale", actor, [saleId |-> saleId, updates |-> updates], NoArgs)
  /\ calls' = calls + 1
  /\ UNCHANGED <<Clients, Prospects, FollowUps, PhoneNumbers, CallLogs, seq, user, others>>

deleteSale(p, actor, saleId) ==
  /\ CanBegin(p)
  /\ Sales' = {r \in Sales : r.id # saleId}
  /\ call' = Single(p, "deleteSale", actor, [saleId |-> saleId], NoArgs)
  /\ calls' = calls + 1
  /\ UNCHANGED <<Clients, Prospects, FollowUps, PhoneNumbers, CallLogs, seq, user, others>>

FollowUpRow(id, followUp, createdAt) ==
  [id |-> id, entityId |-> followUp.entityId, entityType |-> followUp.entityType,
   date |-> followUp.date, notes |-> followUp.notes, isCompleted |-> followUp.isCompleted,
   createdAt |-> createdAt]

addFollowUp(p, actor, followUp) ==
  /\ CanBegin(p)
  /\ LET row == FollowUpRow(NextId("FollowUps"), followUp, Now) IN
       /\ FollowUps' = FollowUps \cup {row}
       /\ seq' = [seq EXCEPT !["FollowUps"] = row.id]
       /\ call' = Single(p, "addFollowUp", actor, [followUp |-> followUp], row)
  /\ calls' = calls + 1
  /\ UNCHANGED <<Clients, Prospects, Sales, PhoneNumbers, CallLogs, user, others>>

\* Faulty variant: the UPDATE flips the flag instead of setting it.
ToggleById(T, followUpId) ==
  {IF r.id = followUpId THEN [r EXCEPT !.isCompleted = 1 - @] ELSE r : r \in T}

\* UPDATE FollowUps SET isCompleted = 1 WHERE id = ?
CompleteById(T, followUpId) ==
  {IF r.id = followUpId THEN [r EXCEPT !.isCompleted = 1] ELSE r : r \in T}

completeFollowUp(p, actor, followUpId) ==
  /\ CanBegin(p)
  /\ FollowUps' = CompleteById(FollowUps, followUpId)
  /\ call' = Single(p, "completeFollowUp", actor, [followUpId |-> followUpId], NoArgs)
  /\ calls' = calls + 1
  /\ UNCHANGED <<Clients, Prospects, Sales, PhoneNumbers, CallLogs, seq, user, others>>

\* `if (data.date)` / `if (data.notes)`: a field is written when it is truthy, that is
\* supplied, not null and not the empty string.
Truthy(v) == v # Null /\ v # ""

TruthyFields(data, columns) == {k \in (columns \cap DOMAIN data) : Truthy(data[k])}

updateFollowUp(p, actor, followUpId, data) ==
  /\ CanBegin(p)
  /\ FollowUps' = UpdateById(FollowUps, followUpId, data, TruthyFields(data, {"date", "notes"}))
  /\ call' = Single(p, "updateFollowUp", actor, [followUpId |-> followUpId, data |-> data], NoArgs)
  /\ calls' = calls + 1
  /\ UNCHANGED <<Clients, Prospects, Sales, PhoneNumbers, CallLogs, seq, user, others>>

deleteFollowUp(p, actor, followUpId) ==
  /\ CanBegin(p)
  /\ FollowUps' = {r \in FollowUps : r.id # followUpId}
  /\ call' = Single(p, "deleteFollowUp", actor, [followUpId |-> followUpId], NoArgs)
  /\ calls' = calls + 1
  /\ UNCHANGED <<Clients, Prospects, Sales, PhoneNumbers, CallLogs, seq, user, others>>

CallLogColumns == {"date", "feedback", "duration", "shortNotes", "nextFollowUpDate"}

updateCallLog(p, actor, callLogId, updates) ==
  /\ CanBegin(p)
  /\ CallLogs' = UpdateById(CallLogs, callLogId, updates, CallLogColumns)
  /\ call' = Single(p, "updateCallLog", actor, [callLogId |-> callLogId, updates |-> updates], NoArgs)
  /\ calls' = calls + 1
  /\ UNCHANGED <<Clients, Prospects, Sales, FollowUps, PhoneNumbers, seq, user, others>>

deleteCallLog(p, actor, callLogId) ==
  /\ CanBegin(p)
  /\ CallLogs' = {r \in CallLogs : r.id # callLogId}
  /\ call' = Single(p, "deleteCallLog", actor, [callLogId |-> callLogId], NoArgs)
  /\ calls' = calls + 1
  /\ UNCHANGED <<Clients, Prospects, Sales, FollowUps, PhoneNumbers, seq, user, others>>

\* ---------------------------------------------------------------- recordNewCall
\* Faulty variant: the lookup forgets the userId condition.
FindPhoneNumberAnyUser(T, userId, number) ==
  IF \E r \in T : r.number = number
    THEN CHOOSE r \in T : r.number = number
    ELSE NullRow

\* SELECT * FROM PhoneNumbers WHERE userId = ? AND number = ?
FindPhoneNumber(T, userId, number) ==
  IF \E r \in T : r.userId = userId /\ r.number = number
    THEN CHOOSE r \in T : r.userId = userId /\ r.number = number
    ELSE NullRow

\* UNIQUE(userId, number) of table PhoneNumbers: does an INSERT of this pair clash?
UniqueClash(T, userId, number) == \E r \in T : r.userId = userId /\ r.number = number

PhoneNumberRow(id, userId, number, lastCalledDate) ==
  [id |-> id, userId |-> userId, number |-> number, lastCalledDate |-> lastCalledDate,
   isProspect |-> 0, prospectId |-> NullId]

CallLogRow(id, phoneNumberId, logData) ==
  [id |-> id, phoneNumberId |-> phoneNumberId, date |-> logData.date,
   feedback |-> logData.feedback, duration |-> logData.duration,
   shortNotes |-> logData.shortNotes, nextFollowUpDate |-> logData.nextFollowUpDate]

\* Faulty variant: the follow-up is tagged as a prospect's.
CallFollowUpRowAsProspect(id, phoneNumberId, number, nextFollowUpDate, createdAt) ==
  [id |-> id, entityId |-> phoneNumberId, entityType |-> "prospect",
   date |-> nextFollowUpDate, notes |-> "Follow-up call for " \o number, isCompleted |-> 0,
   createdAt |-> createdAt]

\* The follow-up recordNewCall stores for a call that names a next follow-up date.
CallFollowUpRow(id, phoneNumberId, number, nextFollowUpDate, createdAt) ==
  [id |-> id, entityId |-> phoneNumberId, entityType |-> "phoneNumber",
   date |-> nextFollowUpDate, notes |-> "Follow-up call for " \o number, isCompleted |-> 0,
   createdAt |-> createdAt]

\* The call is issued with its first statement, the lookup of (userId, number).
recordNewCall(p, userId, callData) ==
  /\ CanBegin(p)
  /\ LET phoneNumber == FindPhoneNumber(PhoneNumbers, userId, callData.number)
         c == Started(p, "recordNewCall", userId,
                      [userId |-> userId, number |-> callData.number,
                       logData |-> callData.logData],
                      IF phoneNumber = NullRow THEN "insertPhoneNumber" ELSE "updatePhoneNumber")
     IN call' = [call EXCEPT ![p] =
                   [c EXCEPT !.loc = [lookup |-> phoneNumber, phoneNumber |-> phoneNumber]]]
  /\ calls' = calls + 1
  /\ UNCHANGED <<tables, user, others>>

\* INSERT INTO PhoneNumbers: rejected by UNIQUE(userId, number) when the pair is stored
\* by now; the rejection reaches the function's catch block, which rethrows it.
recordNewCallInsertPhoneNumber(p) ==
  /\ At(p, "recordNewCall", "insertPhoneNumber")
  /\ IF UniqueClash(PhoneNumbers, call[p].args.userId, call[p].args.number)
       THEN /\ call' = [call EXCEPT ![p] = Thrown(@, "UNIQUE constraint failed")]
            /\ UNCHANGED <<tables, user, others>>
       ELSE LET phoneNumber == PhoneNumberRow(NextId("PhoneNumbers"), call[p].args.userId,
                                              call[p].args.number, call[p].args.logData.date) IN
              /\ PhoneNumbers' = PhoneNumbers \cup {phoneNumber}
              /\ seq' = [seq EXCEPT !["PhoneNumbers"] = phoneNumber.id]
              /\ call' = [call EXCEPT ![p].pc = "insertCallLog",
                                      ![p].loc = [lookup |-> NullRow, phoneNumber |-> phoneNumber]]
              /\ UNCHANGED <<Clients, Prospects, Sales, FollowUps, CallLogs>>
  /\ UNCHANGED <<calls, user, others>>

\* UPDATE PhoneNumbers SET lastCalledDate = ? WHERE id = ?
recordNewCallUpdatePhoneNumber(p) ==
  /\ At(p, "recordNewCall", "updatePhoneNumber")
  /\ LET date == call[p].args.logData.date
         found == call[p].loc.phoneNumber IN
       /\ PhoneNumbers' = {IF r.id = found.id THEN [r EXCEPT !.lastCalledDate = date] ELSE r :
                             r \in PhoneNumbers}
       /\ call' = [call EXCEPT ![p].pc = "insertCallLog",
                               ![p].loc = [lookup |-> found,
                                           phoneNumber |-> [found EXCEPT !.lastCalledDate = date]]]
  /\ UNCHANGED <<Clients, Prospects, Sales, FollowUps, CallLogs, seq, calls, user, others>>

\* INSERT INTO CallLogs; returns unless logData.nextFollowUpDate is truthy.
recordNewCallInsertCallLog(p) ==
  /\ At(p, "recordNewCall", "insertCallLog")
  /\ LET newCallLog == CallLogRow(NextId("CallLogs"), call[p].loc.phoneNumber.id,
                                  call[p].args.logData) IN
       /\ CallLogs' = CallLogs \cup {newCallLog}
       /\ seq' = [seq EXCEPT !["CallLogs"] = newCallLog.id]
       /\ call' = [call EXCEPT ![p] =
                     IF Truthy(call[p].args.logData.nextFollowUpDate)
                       THEN [@ EXCEPT !.pc = "insertFollowUp",
                                      !.loc = [lookup |-> call[p].loc.lookup,
                                               phoneNumber |-> call[p].loc.phoneNumber,
                                               newCallLog |-> newCallLog]]
                       ELSE Returned(@, [phoneNumber |-> call[p].loc.phoneNumber,
                                         callLog |-> newCallLog])]
  /\ UNCHANGED <<Clients, Prospects, Sales, FollowUps, PhoneNumbers, calls, user, others>>

\* INSERT INTO FollowUps (entityId, 'phoneNumber', nextFollowUpDate, ..., 0, createdAt)
recordNewCallInsertFollowUp(p) ==
  /\ At(p, "recordNewCall", "insertFollowUp")
  /\ LET row == CallFollowUpRow(NextId("FollowUps"), call[p].loc.phoneNumber.id, call[p].args.number,
                                call[p].args.logData.nextFollowUpDate, Now) IN
       /\ FollowUps' = FollowUps \cup {row}
       /\ seq' = [seq EXCEPT !["FollowUps"] = row.id]
  /\ call' = [call EXCEPT ![p] =
                Returned(@, [phoneNumber |-> call[p].loc.phoneNumber,
                             callLog |-> call[p].loc.newCallLog])]
  /\ UNCHANGED <<Clients, Prospects, Sales, PhoneNumbers, CallLogs, calls, user, others>>

\* ---------------------------------------------------------------- convertPhoneNumberToProspect
ProspectFromPhoneNumber(id, phoneNumber, prospectData) ==
  [id |-> id, userId |-> phoneNumber.userId, name |-> prospectData.name,
   phone |-> phoneNumber.number, email |-> prospectData.email,
   company |-> prospectData.company, status |-> prospectData.status,
   followUpDate |-> prospectData.followUpDate]

\* Faulty variant: the UPDATE forgets the entityType condition.
CompleteByEntityId(T, entityId, entityType) ==
  {IF r.entityId = entityId THEN [r EXCEPT !.isCompleted = 1] ELSE r : r \in T}

\* UPDATE FollowUps SET isCompleted = 1 WHERE entityId = ? AND entityType = ?
CompleteByEntity(T, entityId, entityType) ==
  {IF r.entityId = entityId /\ r.entityType = entityType
     THEN [r EXCEPT !.isCompleted = 1] ELSE r : r \in T}

\* The call is issued with its first statement, SELECT * FROM PhoneNumbers WHERE id = ?;
\* it throws 'Phone number not found' when there is no such row.
convertPhoneNumberToProspect(p, actor, phoneNumberId, prospectData) ==
  /\ CanBegin(p)
  /\ LET phoneNumber == RowById(PhoneNumbers, phoneNumberId)
         c == Started(p, "convertPhoneNumberToProspect", actor,
                      [phoneNumberId |-> phoneNumberId, prospectData |-> prospectData],
                      "insertProspect")
     IN call' = [call EXCEPT ![p] =
                   IF phoneNumber = NullRow
                     THEN Thrown(c, "Phone number not found")
                     ELSE [c EXCEPT !.loc = [phoneNumber |-> phoneNumber]]]
  /\ calls' = calls + 1
  /\ UNCHANGED <<tables, user, others>>

convertPhoneNumberInsertProspect(p) ==
  /\ At(p, "convertPhoneNumberToProspect", "insertProspect")
  /\ LET newProspect == ProspectFromPhoneNumber(NextId("Prospects"), call[p].loc.phoneNumber,
                                                call[p].args.prospectData) IN
       /\ Prospects' = Prospects \cup {newProspect}
       /\ seq' = [seq EXCEPT !["Prospects"] = newProspect.id]
       /\ call' = [call EXCEPT ![p].pc = "updatePhoneNumber",
                               ![p].loc = [phoneNumber |-> call[p].loc.phoneNumber,
                                           newProspect |-> newProspect]]
  /\ UNCHANGED <<Clients, Sales, FollowUps, PhoneNumbers, CallLogs, calls, user, others>>

\* UPDATE PhoneNumbers SET isProspect = 1, prospectId = ? WHERE id = ?
convertPhoneNumberUpdatePhoneNumber(p) ==
  /\ At(p, "convertPhoneNumberToProspect", "updatePhoneNumber")
  /\ PhoneNumbers' = {IF r.id = call[p].args.phoneNumberId
                        THEN [r EXCEPT !.isProspect = 1,
                                       !.prospectId = call[p].loc.newProspect.id]
                        ELSE r : r \in PhoneNumbers}
  /\ call' = [call EXCEPT ![p].pc = "completeFollowUps"]
  /\ UNCHANGED <<Clients, Prospects, Sales, FollowUps, CallLogs, seq, calls, user, others>>

convertPhoneNumberCompleteFollowUps(p) ==
  /\ At(p, "convertPhoneNumberToProspect", "completeFollowUps")
  /\ FollowUps' = CompleteByEntity(FollowUps, call[p].args.phoneNumberId, "phoneNumber")
  /\ call' = [call EXCEPT ![p] = Returned(@, call[p].loc.newProspect)]
  /\ UNCHANGED <<Clients, Prospects, Sales, PhoneNumbers, CallLogs, seq, calls, user, others>>

\* ---------------------------------------------------------------- deleteClient / deleteProspect
\* DELETE FROM FollowUps WHERE entityId = ? (the entityType test left out)
DeleteByEntityId(T, entityId, entityType) ==
  {r \in T : r.entityId # entityId}

\* DELETE FROM FollowUps WHERE entityId = ? AND entityType = <type>
DeleteByEntity(T, entityId, entityType) ==
  {r \in T : ~(r.entityId = entityId /\ r.entityType = entityType)}

\* The call is issued with its first statement, the DELETE of the client's follow-ups.
deleteClient(p, actor, clientId) ==
  /\ CanBegin(p)
  /\ FollowUps' = DeleteByEntity(FollowUps, clientId, "client")
  /\ call' = [call EXCEPT ![p] =
                Started(p, "deleteClient", actor, [clientId |-> clientId], "deleteSales")]
  /\ calls' = calls + 1
  /\ UNCHANGED <<Clients, Prospects, Sales, PhoneNumbers, CallLogs, seq, user, others>>

deleteClientSales(p) ==
  /\ At(p, "deleteClient", "deleteSales")
  /\ Sales' = {r \in Sales : r.clientId # call[p].args.clientId}
  /\ call' = [call EXCEPT ![p].pc = "deleteClient"]
  /\ UNCHANGED <<Clients, Prospects, FollowUps, PhoneNumbers, CallLogs, seq, calls, user, others>>

deleteClientRow(p) ==
  /\ At(p, "deleteClient", "deleteClient")
  /\ Clients' = {r \in Clients : r.id # call[p].args.clientId}
  /\ call' = [call EXCEPT ![p] = Returned(@, NoArgs)]
  /\ UNCHANGED <<Prospects, Sales, FollowUps, PhoneNumbers, CallLogs, seq, calls, user, others>>

\* The call is issued with its first statement, the DELETE of the prospect's follow-ups.
deleteProspect(p, actor, prospectId) ==
  /\ CanBegin(p)
  /\ FollowUps' = DeleteByEntity(FollowUps, prospectId, "prospect")
  /\ call' = [call EXCEPT ![p] =
                Started(p, "deleteProspect", actor, [prospectId |-> prospectId], "deleteProspect")]
  /\ calls' = calls + 1
  /\ UNCHANGED <<Clients, Prospects, Sales, PhoneNumbers, CallLogs, seq, user, others>>

deleteProspectRow(p) ==
  /\ At(p, "deleteProspect", "deleteProspect")
  /\ Prospects' = {r \in Prospects : r.id # call[p].args.prospectId}
  /\ call' = [call EXCEPT ![p] = Returned(@, NoArgs)]
  /\ UNCHANGED <<Clients, Sales, FollowUps, PhoneNumbers, CallLogs, seq, calls, user, others>>

\* ---------------------------------------------------------------- queries
\* SELECT * FROM Clients WHERE userId = ?
getClients(userId) == {c \in Clients : c.userId = userId}

\* SELECT * FROM Clients WHERE id = ?   (the caller's user is no parameter)
getClientById(clientId) == {c \in Clients : c.id = clientId}

getProspects(userId) == {r \in Prospects : r.userId = userId}

\* SELECT Sales.*, Clients.name FROM Sales INNER JOIN Clients ON Sales.clientId = Clients.id
\* WHERE Clients.userId = ?
SaleWithClientName(s, c) ==
  [id |-> s.id, clientId |-> s.clientId, date |-> s.date, amount |-> s.amount,
   productOrService |-> s.productOrService, clientName |-> c.name]

getSales(userId) ==
  {SaleWithClientName(j[1], j[2]) :
     j \in {k \in Sales \X Clients : k[1].clientId = k[2].id /\ k[2].userId = userId}}

\* SELECT * FROM Sales WHERE clientId = ?
getSalesByClient(clientId) == {s \in Sales : s.clientId = clientId}

\* Faulty variant: the join forgets the entityType tag.
JoinsRowOfAnyType(f, T, tag, userId) ==
  \E r \in T : f.entityId = r.id /\ r.userId = userId

\* The three LEFT JOINs of getFollowUps: the row a follow-up is joined to in each table
\* (ON entityId = id AND entityType = <tag>), and the WHERE over the joined userIds.
JoinsRowOf(f, T, tag, userId) ==
  \E r \in T : f.entityId = r.id /\ f.entityType = tag /\ r.userId = userId

getFollowUps(userId) ==
  {f \in FollowUps :
     \/ JoinsRowOf(f, Clients, "client", userId)
     \/ JoinsRowOf(f, Prospects, "prospect", userId)
     \/ JoinsRowOf(f, PhoneNumbers, "phoneNumber", userId)}

\* CASE ... END as entityName: the name (number) of the row the follow-up is joined to.
entityName(f) ==
  CASE f.entityType = "client" -> (CHOOSE r \in Clients : r.id = f.entityId).name
    [] f.entityType = "prospect" -> (CHOOSE r \in Prospects : r.id = f.entityId).name
    [] f.entityType = "phoneNumber" -> (CHOOSE r \in PhoneNumbers : r.id = f.entityId).number

\* The rows of getFollowUps with the joined entity's name, kept when the name is truthy.
getFollowUpsWithDetails(userId) ==
  {d \in {[id |-> f.id, entityId |-> f.entityId, entityType |-> f.entityType,
           date |-> f.date, notes |-> f.notes, isCompleted |-> f.isCompleted,
           entityName |-> entityName(f)] : f \in getFollowUps(userId)} :
     Truthy(d.entityName)}

\* SELECT * FROM FollowUps WHERE entityId = ? AND entityType = ?
getFollowUpsByEntity(entityId, entityType) ==
  {f \in FollowUps : f.entityId = entityId /\ f.entityType = entityType}

getPhoneNumbers(userId) == {r \in PhoneNumbers : r.userId = userId}

\* SELECT CallLogs.*, PhoneNumbers.number FROM CallLogs INNER JOIN PhoneNumbers
\* ON CallLogs.phoneNumberId = PhoneNumbers.id WHERE PhoneNumbers.userId = ?
CallLogWithNumber(l, n) ==
  [id |-> l.id, phoneNumberId |-> l.phoneNumberId, date |-> l.date, feedback |-> l.feedback,
   duration |-> l.duration, shortNotes |-> l.shortNotes,
   nextFollowUpDate |-> l.nextFollowUpDate, number |-> n.number]

getCallLogs(userId) ==
  {CallLogWithNumber(j[1], j[2]) :
     j \in {k \in CallLogs \X PhoneNumbers : k[1].phoneNumberId = k[2].id /\ k[2].userId = userId}}

\* SELECT * FROM CallLogs WHERE phoneNumberId = ?
getCallLogsByPhoneNumber(phoneNumberId) == {l \in CallLogs : l.phoneNumberId = phoneNumberId}

\* ---------------------------------------------------------------- getAnalyticsData
\* A JS number that is the result of integer arithmetic and one division: the fraction
\* num / den in lowest terms; den = 0 is NaN (0 / 0).
RECURSIVE GCD(_, _)
GCD(a, b) == IF b = 0 THEN a ELSE GCD(b, a % b)
Number(n) == [num |-> n, den |-> 1]
NaN == [num |-> 0, den |-> 0]
Divide(a, b) ==
  IF b = 0 THEN NaN
  ELSE LET g == GCD(a, b) IN IF g = 0 THEN Number(0) ELSE [num |-> a \div g, den |-> b \div g]

Times(x, n) == Divide(x.num * n, x.den)

\* ISO dates in lexicographic (= chronological) order, for BETWEEN and ORDER BY.
DateLine == <<"2025-01-01", "2025-01-02", "2025-02-01", "2025-03-01">>
DateIndex(d) == CHOOSE i \in 1..Len(DateLine) : DateLine[i] = d
DateLE(a, b) == DateIndex(a) <= DateIndex(b)

\* (startDate?, endDate?) as the analytics screen passes them: both or neither.
NoRange == [startDate |-> "", endDate |-> ""]
DateRanges == {NoRange, [startDate |-> "2025-01-02", endDate |-> "2025-02-01"]}

\* startDate && endDate ? `AND Sales.date BETWEEN ? AND ?` : ""
dateFilter(s, startDate, endDate) ==
  IF Truthy(startDate) /\ Truthy(endDate)
    THEN DateLE(startDate, s.date) /\ DateLE(s.date, endDate)
    ELSE TRUE

\* ORDER BY Sales.date DESC; rows of one date in rowid order.
RECURSIVE OrderByDateDesc(_)
OrderByDateDesc(S) ==
  IF S = {} THEN <<>>
  ELSE LET first == CHOOSE s \in S : \A t \in S :
                      \/ DateIndex(s.date) > DateIndex(t.date)
                      \/ s.date = t.date /\ s.id <= t.id
       IN <<first>> \o OrderByDateDesc(S \ {first})

\* SELECT * FROM Sales INNER JOIN Clients ON Sales.clientId = Clients.id
\* WHERE Clients.userId = ? [AND Sales.date BETWEEN ? AND ?] ORDER BY Sales.date DESC
SelectSales(userId, startDate, endDate) ==
  OrderByDateDesc({s \in Sales :
                     /\ \E c \in Clients : c.id = s.clientId /\ c.userId = userId
                     /\ dateFilter(s, startDate, endDate)})

\* sales.reduce((sum, sale) => sum + sale.amount, 0)
RECURSIVE totalRevenue(_)
totalRevenue(sales) ==
  IF sales = <<>> THEN 0 ELSE sales[1].amount + totalRevenue(Tail(sales))

\* totalRevenue / sales.length (the sales.length > 0 test left out)
UnguardedAverage(sales) == Divide(totalRevenue(sales), Len(sales))

\* sales.length > 0 ? totalRevenue / sales.length : 0
averageSaleAmount(sales) ==
  IF Len(sales) > 0 THEN Divide(totalRevenue(sales), Len(sales)) ELSE Number(0)

\* totalProspects > 0 ? (wonProspects / totalProspects) * 100 : 0
conversionRate(prospects) ==
  LET wonProspects == Cardinality({r \in prospects : r.status = "Won"})
      totalProspects == Cardinality(prospects)
  IN IF totalProspects > 0
       THEN Times(Divide(wonProspects, totalProspects), 100)
       ELSE Number(0)

\* productMap.set(sale.productOrService, {count + 1, revenue + sale.amount}): a Map keeps
\* its keys in the order of their first insertion.
productMapSet(productMap, sale) ==
  IF \E i \in 1..Len(productMap) : productMap[i].product = sale.productOrService
    THEN [i \in 1..Len(productMap) |->
            IF productMap[i].product = sale.productOrService
              THEN [product |-> productMap[i].product,
                    count |-> productMap[i].count + 1,
                    revenue |-> productMap[i].revenue + sale.amount]
              ELSE productMap[i]]
    ELSE Append(productMap, [product |-> sale.productOrService, count |-> 1,
                             revenue |-> sale.amount])

\* sales.forEach((sale) => { ... productMap.set(...) })
RECURSIVE forEachSale(_, _)
forEachSale(sales, productMap) ==
  IF sales = <<>> THEN productMap
  ELSE forEachSale(Tail(sales), productMapSet(productMap, Head(sales)))

\* An entry placed into a list sorted by (a, b) => b.revenue - a.revenue, before the
\* entries of equal revenue (a sort that is not stable).
InsertBeforeTies(sorted, e) ==
  LET k == Cardinality({i \in 1..Len(sorted) : sorted[i].revenue > e.revenue})
  IN SubSeq(sorted, 1, k) \o <<e>> \o SubSeq(sorted, k + 1, Len(sorted))

\* An entry placed into a list sorted by (a, b) => b.revenue - a.revenue, after the
\* entries of equal revenue: Array.prototype.sort is stable.
InsertSorted(sorted, e) ==
  LET k == Cardinality({i \in 1..Len(sorted) : sorted[i].revenue >= e.revenue})
  IN SubSeq(sorted, 1, k) \o <<e>> \o SubSeq(sorted, k + 1, Len(sorted))

\* .sort((a, b) => b.revenue - a.revenue)
RECURSIVE sortByRevenue(_, _)
sortByRevenue(entries, sorted) ==
  IF entries = <<>> THEN sorted
  ELSE sortByRevenue(Tail(entries), InsertSorted(sorted, Head(entries)))

\* .slice(0, 5)
TopN == 5
slice(s, n) == SubSeq(s, 1, IF Len(s) < n THEN Len(s) ELSE n)

\* Array.from(productMap.entries()).map(...).sort(...).slice(0, 5)
topProductsOf(sales) == slice(sortByRevenue(forEachSale(sales, <<>>), <<>>), TopN)

\* The figures of AnalyticsData that are derived from Sales and Prospects.
getAnalyticsData(userId, startDate, endDate) ==
  LET sales == SelectSales(userId, startDate, endDate)
      prospects == getProspects(userId)
  IN [totalRevenue |-> totalRevenue(sales),
      totalProspects |-> Cardinality(prospects),
      conversionRate |-> conversionRate(prospects),
      averageSaleAmount |-> averageSaleAmount(sales),
      topProducts |-> topProductsOf(sales)]

\* Inputs of the in-memory part: the rows of the result set, most recent first.
MaxSales == 6
ProductNames == <<"Widget", "Gadget", "Gizmo", "Doohickey", "Thingamajig", "Whatsit", "Sprocket">>
Amounts == {10, 20}

\* The products a next row may name: one already in the result set, or the next new one
\* (product names carry no meaning, so new products appear in the order of ProductNames).
NextProducts ==
  LET used == {analyticsSales[i].productOrService : i \in 1..Len(analyticsSales)}
      n == Cardinality(used)
  IN used \cup (IF n < Len(ProductNames) THEN {ProductNames[n + 1]} ELSE {})

\* One more row of the result set of the SELECT on Sales.
selectSale(product, amount) ==
  /\ analyticsPc = "select"
  /\ Len(analyticsSales) < MaxSales
  /\ product \in NextProducts
  /\ analyticsSales' = Append(analyticsSales,
                              [id |-> Len(analyticsSales) + 1, productOrService |-> product,
                               amount |-> amount])
  /\ UNCHANGED <<tables, call, calls, user, UserRows, db, schema, initPc, PlatformOS, txn,
                 analyticsPc, topProducts, context>>

\* The topProducts computation over the rows returned.
computeTopProducts ==
  /\ analyticsPc = "select"
  /\ topProducts' = topProductsOf(analyticsSales)
  /\ analyticsPc' = "done"
  /\ UNCHANGED <<tables, call, calls, user, UserRows, db, schema, initPc, PlatformOS, txn,
                 analyticsSales, context>>

\* ---------------------------------------------------------------- signup / signin
Usernames == {"ann", "bob"}
Passwords == {"pw1", "pw2"}
SignupInputs == {[username |-> u, password |-> w, name |-> "Ann"] : u \in Usernames, w \in Passwords}
SigninInputs == {[username |-> u, password |-> w] : u \in Usernames, w \in Passwords}

\* username TEXT UNIQUE NOT NULL: the INSERT is rejected when the username is stored.
UsernameClash(T, username) == \E u \in T : u.username = username

\* INSERT INTO Users; any rejection is reported as "Username already exists".
signup(p, username, password, name) ==
  /\ CanBegin(p)
  /\ LET passwordHash == hashPassword(password)
         args == [username |-> username, password |-> password, name |-> name]
         newUser == UserRow(NextId("Users"), username, passwordHash, name)
     IN IF UsernameClash(UserRows, username)
          THEN /\ call' = [call EXCEPT ![p] =
                             Thrown(Started(p, "signup", NullId, args, "done"),
                                    "Username already exists")]
               /\ UNCHANGED <<UserRows, seq>>
          ELSE /\ UserRows' = UserRows \cup {newUser}
               /\ seq' = [seq EXCEPT !["Users"] = newUser.id]
               /\ call' = Single(p, "signup", NullId, args, newUser)
  /\ calls' = calls + 1
  /\ UNCHANGED <<Clients, Prospects, Sales, FollowUps, PhoneNumbers, CallLogs, user,
                 db, schema, initPc, PlatformOS, txn, analytics, context>>

\* The INSERT of signup rejects for a storage reason (disk full, I/O error, ...): the
\* catch block logs it and throws new Error("Username already exists").
signupInsertFails(p, username, password, name) ==
  /\ CanBegin(p)
  /\ call' = [call EXCEPT ![p] =
                Thrown(Started(p, "signup", NullId,
                               [username |-> username, password |-> password, name |-> name],
                               "done"),
                       "Username already exists")]
  /\ calls' = calls + 1
  /\ UNCHANGED <<tables, user, others>>

\* SELECT * FROM Users WHERE username = ? (the passwordHash test left out)
FindUserByName(T, username, passwordHash) ==
  IF \E u \in T : u.username = username
    THEN CHOOSE u \in T : u.username = username
    ELSE NullRow

\* SELECT * FROM Users WHERE username = ? AND passwordHash = ?
FindUser(T, username, passwordHash) ==
  IF \E u \in T : u.username = username /\ u.passwordHash = passwordHash
    THEN CHOOSE u \in T : u.username = username /\ u.passwordHash = passwordHash
    ELSE NullRow

signin(p, username, password) ==
  /\ CanBegin(p)
  /\ LET args == [username |-> username, password |-> password]
         result == FindUser(UserRows, username, hashPassword(password))
     IN call' = IF result = NullRow
                  THEN [call EXCEPT ![p] =
                          Thrown(Started(p, "signin", NullId, args, "done"),
                                 "Invalid credentials")]
                  ELSE Single(p, "signin", NullId, args, result)
  /\ calls' = calls + 1
  /\ UNCHANGED <<tables, user, others>>

\* ---------------------------------------------------------------- initDatabase
Platforms == {"ios", "web"}

\* The exported functions that begin with `if (!db) throw new Error("Database not initialized")`.
RepositoryFunctions ==
  {"signup", "signin", "addClient", "getClients", "updateClient", "deleteClient",
   "addProspect", "updateProspectStatus", "deleteProspect", "addSale",
   "convertProspectToClientAndRecordSale", "addFollowUp", "completeFollowUp",
   "recordNewCall", "convertPhoneNumberToProspect", "getAnalyticsData"}

\* initDatabase is called: on web it warns and returns; elsewhere it awaits
\* SQLite.openDatabaseAsync.
initDatabase ==
  /\ initPc = "idle"
  /\ initPc' = IF PlatformOS = "web" THEN "returned" ELSE "opening"
  /\ UNCHANGED <<tables, call, calls, user, UserRows, db, schema, PlatformOS, txn, analytics, context>>

\* db = await SQLite.openDatabaseAsync(...): the connection is assigned, then
\* db.execAsync(CREATE TABLE IF NOT EXISTS ...) is awaited.
initDatabaseOpened ==
  /\ initPc = "opening"
  /\ db' = "open"
  /\ initPc' = "creating"
  /\ UNCHANGED <<tables, call, calls, user, UserRows, schema, PlatformOS, txn, analytics, context>>

\* execAsync resolves: the tables exist, initDatabase returns.
initDatabaseCreated ==
  /\ initPc = "creating"
  /\ schema' = TRUE
  /\ initPc' = "done"
  /\ UNCHANGED <<tables, call, calls, user, UserRows, db, PlatformOS, txn, analytics, context>>

\* openDatabaseAsync or execAsync rejects: the catch block logs and rethrows; db keeps
\* whatever was assigned.
initDatabaseFails ==
  /\ initPc \in {"opening", "creating"}
  /\ initPc' = "failed"
  /\ UNCHANGED <<tables, call, calls, user, UserRows, db, schema, PlatformOS, txn, analytics, context>>

\* A repository function is called while db is null: it throws before any statement.
NotInitialized(p, op) ==
  /\ calls < MaxCalls
  /\ call[p].status # "running"
  /\ db = Null
  /\ call' = [call EXCEPT ![p] =
                Thrown(Started(p, op, user, NoArgs, "done"), "Database not initialized")]
  /\ calls' = calls + 1
  /\ UNCHANGED <<tables, user, others>>

\* A repository function is called with the connection open and the tables not created:
\* its first statement rejects and the catch block rethrows.
NoSuchTable(p, op) ==
  /\ calls < MaxCalls
  /\ call[p].status # "running"
  /\ db # Null
  /\ ~schema
  /\ call' = [call EXCEPT ![p] =
                Thrown(Started(p, op, user, NoArgs, "done"),
                       IF op = "signup" THEN "Username already exists" ELSE "no such table")]
  /\ calls' = calls + 1
  /\ UNCHANGED <<tables, user, others>>

\* ---------------------------------------------------------------- SalesProvider / useNotifications
\* loadData: what Promise.all([getClients(user.id), ..., getCallLogs(user.id)]) resolves
\* to for the six entity lists.
ReadLists(userId) ==
  [clients |-> getClients(userId), prospects |-> getProspects(userId),
   sales |-> getSales(userId), followUps |-> getFollowUps(userId),
   phoneNumbers |-> getPhoneNumbers(userId), callLogs |-> getCallLogs(userId)]

\* Wrappers that patch the lists in memory after the repository call.
SetStateOps == {"addClient", "addProspect", "deleteClient", "deleteProspect"}

\* Wrappers that await refreshData() after the repository call.
RefreshingOps ==
  {"addFollowUp", "completeFollowUp", "updateFollowUp", "deleteFollowUp", "recordNewCall",
   "convertPhoneNumberToProspect", "convertProspectToClientAndRecordSale"}
\* Wrappers that then read getFollowUpsWithDetails and call rescheduleNotifications.
ReschedulingOps == {"addFollowUp", "completeFollowUp", "updateFollowUp", "deleteFollowUp"}

\* The wrapper around the call of process p has work left after the repository call
\* returned (a failed call goes to the wrapper's catch block).
WrapperPending(p) ==
  /\ call[p].status = "ok"
  /\ call[p].op \in RefreshingOps \cup SetStateOps
  /\ served < calls

\* The user starts the next operation when the previous wrapper has returned.
ContextIdle(p) == ~WrapperPending(p) /\ ctxPc = "idle"

\* await refreshData(): loadData reads the lists and sets the state; the new
\* followUpsWithDetails array re-creates setupNotifications and queues its effect.
refreshData(p) ==
  /\ WrapperPending(p)
  /\ call[p].op \in RefreshingOps
  /\ ctxPc = "idle"
  /\ lists' = ReadLists(user)
  /\ followUpsWithDetails' = getFollowUpsWithDetails(user)
  /\ effectPending' = TRUE
  /\ IF call[p].op \in ReschedulingOps
       THEN ctxPc' = "reschedule" /\ served' = served
       ELSE ctxPc' = "idle" /\ served' = calls
  /\ UNCHANGED <<tables, call, calls, user, UserRows, db, schema, initPc, PlatformOS, txn,
                 analytics, scheduled, reminders, sched, load>>

\* const updatedFollowUps = await db.getFollowUpsWithDetails(user.id);
\* await rescheduleNotifications(updatedFollowUps);
rescheduleNotifications ==
  /\ ctxPc = "reschedule"
  /\ scheduled' = getFollowUpsWithDetails(user)
  /\ ctxPc' = "idle"
  /\ served' = calls
  /\ UNCHANGED <<tables, call, calls, user, UserRows, db, schema, initPc, PlatformOS, txn,
                 analytics, followUpsWithDetails, effectPending, provider>>

\* The addClient wrapper: setClients((prev) => [...prev, newClient]).
addClientSetState(p) ==
  /\ WrapperPending(p)
  /\ call[p].op = "addClient"
  /\ lists' = [lists EXCEPT !.clients = @ \cup {call[p].ret}]
  /\ served' = calls
  /\ UNCHANGED <<tables, call, calls, user, UserRows, db, schema, initPc, PlatformOS, txn,
                 analytics, followUpsWithDetails, scheduled, ctxPc, effectPending,
                 reminders, sched, load>>

\* The addProspect wrapper: setProspects((prev) => [...prev, newProspect]).
addProspectSetState(p) ==
  /\ WrapperPending(p)
  /\ call[p].op = "addProspect"
  /\ lists' = [lists EXCEPT !.prospects = @ \cup {call[p].ret}]
  /\ served' = calls
  /\ UNCHANGED <<tables, call, calls, user, UserRows, db, schema, initPc, PlatformOS, txn,
                 analytics, followUpsWithDetails, scheduled, ctxPc, effectPending,
                 reminders, sched, load>>

\* The deleteClient wrapper: setClients and setSales drop the client and its sales.
deleteClientSetState(p) ==
  /\ WrapperPending(p)
  /\ call[p].op = "deleteClient"
  /\ lists' = [lists EXCEPT
                 !.clients = {c \in @ : c.id # call[p].args.clientId},
                 !.sales = {s \in @ : s.clientId # call[p].args.clientId}]
  /\ served' = calls
  /\ UNCHANGED <<tables, call, calls, user, UserRows, db, schema, initPc, PlatformOS, txn,
                 analytics, followUpsWithDetails, scheduled, ctxPc, effectPending,
                 reminders, sched, load>>

\* The deleteProspect wrapper: setProspects, setFollowUps and setFollowUpsWithDetails
\* drop the prospect and the follow-ups addressed to it.
deleteProspectSetState(p) ==
  /\ WrapperPending(p)
  /\ call[p].op = "deleteProspect"
  /\ lists' = [lists EXCEPT
                 !.prospects = {r \in @ : r.id # call[p].args.prospectId},
                 !.followUps = {f \in @ : ~(f.entityId = call[p].args.prospectId
                                            /\ f.entityType = "prospect")}]
  /\ followUpsWithDetails' =
       {f \in followUpsWithDetails :
          ~(f.entityId = call[p].args.prospectId /\ f.entityType = "prospect")}
  /\ effectPending' = TRUE
  /\ served' = calls
  /\ UNCHANGED <<tables, call, calls, user, UserRows, db, schema, initPc, PlatformOS, txn,
                 analytics, scheduled, ctxPc, reminders, sched, load>>

\* useNotifications: the effect runs setupNotifications, which hands the state's list to
\* scheduleAllFollowUpNotifications.
setupNotifications ==
  /\ effectPending
  /\ scheduled' = followUpsWithDetails
  /\ effectPending' = FALSE
  /\ UNCHANGED <<tables, call, calls, user, UserRows, db, schema, initPc, PlatformOS, txn,
                 analytics, followUpsWithDetails, served, ctxPc, provider>>

\* ---------------------------------------------------------------- DatabaseService (transactions)
\* The class variant of the repository brackets the conversion with BEGIN TRANSACTION /
\* COMMIT / ROLLBACK on its one connection. Statements other calls run on the connection
\* while the transaction is open belong to it; ROLLBACK restores the six tables and
\* sqlite_sequence to what they were at BEGIN.
TxConvert == "DatabaseService.convertProspectToClientAndRecordSale"

\* An error caught by the function's outer catch block only: logged and rethrown.
CatchAndRethrow(c, err) == Thrown(c, err)

\* catch (error) { await this.db.execAsync("ROLLBACK"); throw error; }
CatchAndRollback(c, err) == [c EXCEPT !.pc = "rollback", !.err = err]

\* The call is issued with await this.db.execAsync("BEGIN TRANSACTION"), which rejects
\* when a transaction is open already; BEGIN is outside the inner try block.
beginTransaction(p, actor, prospectId, saleData) ==
  /\ CanBegin(p)
  /\ LET c == Started(p, TxConvert, actor, [prospectId |-> prospectId, saleData |-> saleData],
                      "select")
     IN IF txn.open
          THEN /\ call' = [call EXCEPT ![p] =
                             CatchAndRethrow(c, "cannot start a transaction within a transaction")]
               /\ txn' = txn
          ELSE /\ call' = [call EXCEPT ![p] = c]
               /\ txn' = [open |-> TRUE, tables |-> DB, seq |-> seq]
  /\ calls' = calls + 1
  /\ UNCHANGED <<tables, user, UserRows, db, schema, initPc, PlatformOS, analytics, context>>

\* Step 1: SELECT * FROM Prospects WHERE id = ?; throws 'Prospect not found'.
transactionSelectProspect(p) ==
  /\ At(p, TxConvert, "select")
  /\ LET prospect == RowById(Prospects, call[p].args.prospectId) IN
       call' = [call EXCEPT ![p] =
                  IF prospect = NullRow
                    THEN CatchAndRollback(@, "Prospect not found")
                    ELSE [@ EXCEPT !.pc = "insertClient", !.loc = [prospect |-> prospect]]]
  /\ UNCHANGED <<tables, calls, user, others>>

\* Step 2: INSERT INTO Clients (...), industry 'Unknown'.
transactionInsertClient(p) ==
  /\ At(p, TxConvert, "insertClient")
  /\ LET newClient == [ClientFromProspect(NextId("Clients"), call[p].loc.prospect)
                         EXCEPT !.industry = "Unknown"] IN
       /\ Clients' = Clients \cup {newClient}
       /\ seq' = [seq EXCEPT !["Clients"] = newClient.id]
       /\ call' = [call EXCEPT ![p].pc = "insertSale",
                               ![p].loc = [prospect |-> call[p].loc.prospect,
                                           newClient |-> newClient]]
  /\ UNCHANGED <<Prospects, Sales, FollowUps, PhoneNumbers, CallLogs, calls, user, others>>

\* Step 3: INSERT INTO Sales (...) referencing the new client.
transactionInsertSale(p) ==
  /\ At(p, TxConvert, "insertSale")
  /\ LET newSale == SaleRow(NextId("Sales"), call[p].loc.newClient.id, call[p].args.saleData) IN
       /\ Sales' = Sales \cup {newSale}
       /\ seq' = [seq EXCEPT !["Sales"] = newSale.id]
       /\ call' = [call EXCEPT ![p].pc = "updateStatus",
                               ![p].loc = [prospect |-> call[p].loc.prospect,
                                           newClient |-> call[p].loc.newClient,
                                           newSale |-> newSale]]
  /\ UNCHANGED <<Clients, Prospects, FollowUps, PhoneNumbers, CallLogs, calls, user, others>>

\* Step 4: UPDATE Prospects SET status = 'Won' WHERE id = ?
transactionUpdateStatus(p) ==
  /\ At(p, TxConvert, "updateStatus")
  /\ Prospects' = {IF r.id = call[p].args.prospectId THEN [r EXCEPT !.status = "Won"] ELSE r :
                     r \in Prospects}
  /\ call' = [call EXCEPT ![p].pc = "commit"]
  /\ UNCHANGED <<Clients, Sales, FollowUps, PhoneNumbers, CallLogs, seq, calls, user, others>>

\* await this.db.execAsync("COMMIT"); return { client: newClient, sale: newSale }.
\* COMMIT rejects when no transaction is open on the connection any more.
commit(p) ==
  /\ At(p, TxConvert, "commit")
  /\ txn' = TxnClosed
  /\ call' = [call EXCEPT ![p] =
                IF txn.open
                  THEN Returned(@, [client |-> call[p].loc.newClient, sale |-> call[p].loc.newSale])
                  ELSE CatchAndRollback(@, "cannot commit - no transaction is active")]
  /\ UNCHANGED <<tables, calls, user, UserRows, db, schema, initPc, PlatformOS, analytics, context>>

\* await this.db.execAsync("ROLLBACK"); throw error. ROLLBACK undoes whatever transaction
\* is open on the connection; with none open it rejects, and that error is thrown.
rollback(p) ==
  /\ At(p, TxConvert, "rollback")
  /\ IF txn.open
       THEN /\ Clients' = txn.tables.Clients
            /\ Prospects' = txn.tables.Prospects
            /\ Sales' = txn.tables.Sales
            /\ FollowUps' = txn.tables.FollowUps
            /\ PhoneNumbers' = txn.tables.PhoneNumbers
            /\ CallLogs' = txn.tables.CallLogs
            /\ seq' = txn.seq
            /\ txn' = TxnClosed
            /\ call' = [call EXCEPT ![p] = Thrown(@, call[p].err)]
       ELSE /\ call' = [call EXCEPT ![p] = Thrown(@, "cannot rollback - no transaction is active")]
            /\ UNCHANGED <<tables, txn>>
  /\ UNCHANGED <<calls, user, UserRows, db, schema, initPc, PlatformOS, analytics, context>>

\* A statement between BEGIN and the return rejects for a storage reason: it has no
\* effect and the inner catch block runs. SQLite keeps the transaction open after most
\* errors and rolls it back by itself after some (disk full, I/O error).
transactionStatementFails(p) ==
  /\ call[p].status = "running"
  /\ call[p].op = TxConvert
  /\ call[p].pc \in {"select", "insertClient", "insertSale", "updateStatus", "commit"}
  /\ call' = [call EXCEPT ![p] = CatchAndRollback(@, "storage error")]
  /\ \/ UNCHANGED <<tables, txn>>
     \/ /\ txn.open
        /\ Clients' = txn.tables.Clients
        /\ Prospects' = txn.tables.Prospects
        /\ Sales' = txn.tables.Sales
        /\ FollowUps' = txn.tables.FollowUps
        /\ PhoneNumbers' = txn.tables.PhoneNumbers
        /\ CallLogs' = txn.tables.CallLogs
        /\ seq' = txn.seq
        /\ txn' = TxnClosed
  /\ UNCHANGED <<calls, user, UserRows, db, schema, initPc, PlatformOS, analytics, context>>

\* The statements of the transactional conversion, one step each.
TransactionStep(p) ==
  \/ transactionSelectProspect(p)
  \/ transactionInsertClient(p)
  \/ transactionInsertSale(p)
  \/ transactionUpdateStatus(p)
  \/ commit(p)
  \/ rollback(p)
  \/ transactionStatementFails(p)

\* ---------------------------------------------------------------- AuthContext / loadData
\* AuthContext.logout: setUser(null). The SalesProvider effect on [user, loadData] then
\* takes its else branch and empties the seven lists.
logout ==
  /\ user # NullId
  /\ user' = NullId
  /\ lists' = EmptyLists
  /\ followUpsWithDetails' = {}
  /\ effectPending' = TRUE
  /\ UNCHANGED <<tables, call, calls, UserRows, db, schema, initPc, PlatformOS, txn, analytics,
                 scheduled, served, ctxPc, reminders, sched, load>>

\* AuthContext.login / register: setUser(loggedInUser). The SalesProvider effect calls
\* loadData(), which passes `if (!user) return` and starts its seven queries for u.
setUser(u) ==
  /\ user = NullId
  /\ load[u].pc = "idle"
  /\ user' = u
  /\ load' = [load EXCEPT ![u].pc = "reading"]
  /\ UNCHANGED <<tables, call, calls, UserRows, db, schema, initPc, PlatformOS, txn, analytics,
                 followUpsWithDetails, scheduled, served, ctxPc, effectPending,
                 reminders, sched, lists>>

\* loadData: Promise.all resolves with the rows of the user the call captured.
loadDataResolve(u) ==
  /\ load[u].pc = "reading"
  /\ load' = [load EXCEPT ![u] = [pc |-> "resolved", lists |-> ReadLists(u),
                                  details |-> getFollowUpsWithDetails(u)]]
  /\ UNCHANGED <<tables, call, calls, user, UserRows, db, schema, initPc, PlatformOS, txn,
                 analytics, followUpsWithDetails, scheduled, served, ctxPc, effectPending,
                 reminders, sched, lists>>

\* loadData: setClients(clientsData); ...; setCallLogs(callLogsData), whoever is signed
\* in by now.
loadDataSetState(u) ==
  /\ load[u].pc = "resolved"
  /\ lists' = load[u].lists
  /\ followUpsWithDetails' = load[u].details
  /\ effectPending' = TRUE
  /\ load' = [load EXCEPT ![u] = [pc |-> "idle", lists |-> EmptyLists, details |-> {}]]
  /\ UNCHANGED <<tables, call, calls, user, UserRows, db, schema, initPc, PlatformOS, txn,
                 analytics, scheduled, served, ctxPc, reminders, sched>>

\* ---------------------------------------------------------------- notificationService
\* new Date() while the reminders are scheduled.
Today == "2025-01-02"

\* if (followUpDate <= now) return null: only a date in the future gets a reminder.
InFuture(date) == ~DateLE(date, Today)

\* FollowUpWithDetails rows the callers hand over: pending with a future date, completed,
\* pending with a past date.
DetailRows ==
  {[id |-> 1, entityId |-> 1, entityType |-> "client", date |-> "2025-02-01",
    notes |-> "call back", isCompleted |-> 0, entityName |-> "Acme"],
   [id |-> 2, entityId |-> 1, entityType |-> "prospect", date |-> "2025-02-01",
    notes |-> "call back", isCompleted |-> 1, entityName |-> "Pat"],
   [id |-> 3, entityId |-> 1, entityType |-> "client", date |-> "2025-01-01",
    notes |-> "call back", isCompleted |-> 0, entityName |-> "Acme"]}

\* Caller k calls scheduleAllFollowUpNotifications(followUps): the call is issued with
\* await Notifications.cancelAllScheduledNotificationsAsync(), then the pending rows
\* are filtered for the loop.
scheduleAllFollowUpNotifications(k, followUps) ==
  /\ calls < MaxCalls
  /\ sched[k].pc = "idle"
  /\ reminders' = EmptyBag
  /\ scheduled' = followUps
  /\ LET pendingFollowUps == {f \in followUps : f.isCompleted = 0} IN
       sched' = [sched EXCEPT ![k] =
                   [pc |-> IF pendingFollowUps = {} THEN "idle" ELSE "loop",
                    todo |-> pendingFollowUps]]
  /\ calls' = calls + 1
  /\ UNCHANGED <<tables, call, user, UserRows, db, schema, initPc, PlatformOS, txn, analytics,
                 followUpsWithDetails, served, ctxPc, effectPending, lists, load>>

\* One iteration of `for (const followUp of pendingFollowUps) await
\* scheduleFollowUpNotification(followUp)`: scheduleNotificationAsync adds a reminder
\* under a fresh notification id.
scheduleFollowUpNotification(k) ==
  /\ sched[k].pc = "loop"
  /\ LET followUp == CHOOSE f \in sched[k].todo : \A g \in sched[k].todo : f.id <= g.id
         rest == sched[k].todo \ {followUp}
     IN /\ reminders' = IF InFuture(followUp.date)
                          THEN reminders (+) SetToBag({followUp.id})
                          ELSE reminders
        /\ sched' = [sched EXCEPT ![k] = [pc |-> IF rest = {} THEN "idle" ELSE "loop",
                                          todo |-> rest]]
  /\ UNCHANGED <<tables, call, calls, user, UserRows, db, schema, initPc, PlatformOS, txn,
                 analytics, followUpsWithDetails, scheduled, served, ctxPc, effectPending,
                 lists, load>>

\* ---------------------------------------------------------------- storage failure
\* The statement a running call has reached rejects (disk full, I/O error, ...): it has
\* no effect, and the function's catch block logs and rethrows.
StatementFails(p) ==
  /\ call[p].status = "running"
  /\ call' = [call EXCEPT ![p] = Thrown(@, "storage error")]
  /\ UNCHANGED <<tables, calls, user, others>>

\* ---------------------------------------------------------------- session
\* Another user signs in on the device (logout, then login / register: setUser).
login(u) ==
  /\ calls < MaxCalls
  /\ u # user
  /\ user' = u
  /\ calls' = calls + 1
  /\ UNCHANGED <<tables, call, others>>

\* ---------------------------------------------------------------- specifications
\* The statements of the multi-statement functions, one step each.
Statement(p) ==
  \/ convertProspectInsertClient(p)
  \/ convertProspectInsertSale(p)
  \/ convertProspectUpdateStatus(p)
  \/ recordNewCallInsertPhoneNumber(p)
  \/ recordNewCallUpdatePhoneNumber(p)
  \/ recordNewCallInsertCallLog(p)
  \/ recordNewCallInsertFollowUp(p)
  \/ convertPhoneNumberInsertProspect(p)
  \/ convertPhoneNumberUpdatePhoneNumber(p)
  \/ convertPhoneNumberCompleteFollowUps(p)
  \/ deleteClientSales(p)
  \/ deleteClientRow(p)
  \/ deleteProspectRow(p)

\* A call of any repository function, issued on behalf of the signed-in user.
Invoke(p) ==
  \/ \E c \in ClientInputs : addClient(p, user, c)
  \/ \E id \in IdArgs, up \in ClientUpdates : updateClient(p, user, id, up)
  \/ \E id \in IdArgs : deleteClient(p, user, id)
  \/ \E pr \in ProspectInputs : addProspect(p, user, pr)
  \/ \E id \in IdArgs, st \in StatusInputs : updateProspectStatus(p, user, id, st)
  \/ \E id \in IdArgs, up \in ProspectUpdates : updateProspect(p, user, id, up)
  \/ \E id \in IdArgs : deleteProspect(p, user, id)
  \/ \E sa \in SaleInputs : addSale(p, user, sa)
  \/ \E id \in IdArgs, up \in SaleUpdates : updateSale(p, user, id, up)
  \/ \E id \in IdArgs : deleteSale(p, user, id)
  \/ \E id \in IdArgs, sd \in SaleDataInputs : convertProspectToClientAndRecordSale(p, user, id, sd)
  \/ \E fu \in FollowUpInputs : addFollowUp(p, user, fu)
  \/ \E id \in IdArgs : completeFollowUp(p, user, id)
  \/ \E id \in IdArgs, d \in FollowUpUpdates : updateFollowUp(p, user, id, d)
  \/ \E id \in IdArgs : deleteFollowUp(p, user, id)
  \/ \E cd \in CallDataInputs : recordNewCall(p, user, cd)
  \/ \E id \in IdArgs, up \in CallLogUpdates : updateCallLog(p, user, id, up)
  \/ \E id \in IdArgs : deleteCallLog(p, user, id)
  \/ \E id \in IdArgs, pd \in ProspectDataInputs : convertPhoneNumberToProspect(p, user, id, pd)

\* One call at a time, every statement succeeds.
Next ==
  \E p \in SeqProcs :
    \/ Invoke(p)
    \/ Statement(p)
    \/ \E u \in Users : login(u)

Spec == Init /\ [][Next]_vars

\* One call at a time of a multi-statement function; the statement it waits on may fail.
NextFail ==
  \E p \in SeqProcs :
    \/ \E pr \in ProspectInputs : addProspect(p, user, pr)
    \/ \E id \in IdArgs, sd \in SaleDataInputs : convertProspectToClientAndRecordSale(p, user, id, sd)
    \/ \E cd \in CallDataInputs : recordNewCall(p, user, cd)
    \/ \E id \in IdArgs, pd \in ProspectDataInputs : convertPhoneNumberToProspect(p, user, id, pd)
    \/ \E id \in IdArgs : deleteClient(p, user, id)
    \/ \E id \in IdArgs : deleteProspect(p, user, id)
    \/ Statement(p)
    \/ StatementFails(p)
    \/ \E u \in Users : login(u)

SpecFail == Init /\ [][NextFail]_vars

\* Two calls in flight, interleaved at their awaits; every statement runs to its own outcome.
NextConc ==
  \E p \in Procs :
    \/ \E pr \in ProspectInputs : addProspect(p, user, pr)
    \/ \E id \in IdArgs, sd \in SaleDataInputs : convertProspectToClientAndRecordSale(p, user, id, sd)
    \/ \E cd \in CallDataInputs : recordNewCall(p, user, cd)
    \/ \E id \in IdArgs, pd \in ProspectDataInputs : convertPhoneNumberToProspect(p, user, id, pd)
    \/ \E id \in IdArgs : deleteClient(p, user, id)
    \/ \E id \in IdArgs : deleteProspect(p, user, id)
    \/ Statement(p)
    \/ \E u \in Users : login(u)

SpecConc == Init /\ [][NextConc]_vars

\* The identity functions on a fresh install: no account yet, nobody signed in.
InitAuth ==
  /\ Clients = {}
  /\ Prospects = {}
  /\ Sales = {}
  /\ FollowUps = {}
  /\ PhoneNumbers = {}
  /\ CallLogs = {}
  /\ seq = [t \in TableNames |-> 0]
  /\ call = [p \in Procs |-> IdleCall]
  /\ calls = 0
  /\ user = NullId
  /\ UserRows = {}
  /\ Initialized

NextAuth ==
  \E p \in SeqProcs :
    \/ \E i \in SignupInputs : signup(p, i.username, i.password, i.name)
    \/ \E i \in SigninInputs : signin(p, i.username, i.password)

SpecAuth == InitAuth /\ [][NextAuth]_vars

\* As SpecAuth, and the INSERT of signup may reject for a storage reason.
NextAuthFail ==
  \E p \in SeqProcs :
    \/ \E i \in SignupInputs : signup(p, i.username, i.password, i.name)
    \/ \E i \in SignupInputs : signupInsertFails(p, i.username, i.password, i.name)
    \/ \E i \in SigninInputs : signin(p, i.username, i.password)

SpecAuthFail == InitAuth /\ [][NextAuthFail]_vars

\* Application start: nothing opened yet; the database file is new or kept from an
\* earlier run (its tables exist, here without rows).
InitBoot ==
  /\ Clients = {}
  /\ Prospects = {}
  /\ Sales = {}
  /\ FollowUps = {}
  /\ PhoneNumbers = {}
  /\ CallLogs = {}
  /\ seq = [t \in TableNames |-> 0]
  /\ call = [p \in Procs |-> IdleCall]
  /\ calls = 0
  /\ user \in Users
  /\ UserRows = {}
  /\ db = Null
  /\ schema \in BOOLEAN
  /\ initPc = "idle"
  /\ PlatformOS \in Platforms
  /\ analyticsSales = <<>>
  /\ analyticsPc = "select"
  /\ topProducts = <<>>
  /\ followUpsWithDetails = {}
  /\ scheduled = {}
  /\ served = 0
  /\ ctxPc = "idle"
  /\ effectPending = FALSE
  /\ txn = TxnClosed
  /\ ProviderMounted

\* initDatabase and repository calls issued before, during and after it.
NextBoot ==
  \/ initDatabase
  \/ initDatabaseOpened
  \/ initDatabaseCreated
  \/ initDatabaseFails
  \/ \E p \in SeqProcs :
       \/ \E op \in RepositoryFunctions : NotInitialized(p, op)
       \/ \E op \in RepositoryFunctions : NoSuchTable(p, op)
       \/ \E c \in ClientInputs : addClient(p, user, c)
       \/ \E id \in IdArgs : deleteClient(p, user, id)
       \/ deleteClientSales(p)
       \/ deleteClientRow(p)

SpecBoot == InitBoot /\ [][NextBoot]_vars

\* getAnalyticsData over every small result set.
NextTop ==
  \/ \E product \in {ProductNames[i] : i \in 1..Len(ProductNames)}, amount \in Amounts :
       selectSale(product, amount)
  \/ computeTopProducts

SpecTop == Init /\ [][NextTop]_vars

\* The operations of the SalesProvider that touch FollowUps, one at a time, and the
\* notification effect.
NextNotify ==
  \/ setupNotifications
  \/ rescheduleNotifications
  \/ \E p \in SeqProcs :
       \/ refreshData(p)
       \/ addClientSetState(p)
       \/ addProspectSetState(p)
       \/ deleteClientSetState(p)
       \/ deleteProspectSetState(p)
       \/ ContextIdle(p) /\ \E c \in ClientInputs : addClient(p, user, c)
       \/ ContextIdle(p) /\ \E pr \in ProspectInputs : addProspect(p, user, pr)
       \/ ContextIdle(p) /\ \E fu \in FollowUpInputs : addFollowUp(p, user, fu)
       \/ ContextIdle(p) /\ \E id \in IdArgs : completeFollowUp(p, user, id)
       \/ ContextIdle(p) /\ \E id \in IdArgs : deleteFollowUp(p, user, id)
       \/ ContextIdle(p) /\ \E cd \in CallDataInputs : recordNewCall(p, user, cd)
       \/ ContextIdle(p) /\ \E id \in IdArgs : deleteClient(p, user, id)
       \/ ContextIdle(p) /\ \E id \in IdArgs : deleteProspect(p, user, id)
       \/ recordNewCallInsertPhoneNumber(p)
       \/ recordNewCallUpdatePhoneNumber(p)
       \/ recordNewCallInsertCallLog(p)
       \/ recordNewCallInsertFollowUp(p)
       \/ deleteClientSales(p)
       \/ deleteClientRow(p)
       \/ deleteProspectRow(p)

SpecNotify == Init /\ [][NextNotify]_vars

\* The transactional conversion, one call at a time, any of its statements may reject.
NextTxn ==
  \E p \in SeqProcs :
    \/ \E id \in IdArgs, sd \in SaleDataInputs : beginTransaction(p, user, id, sd)
    \/ TransactionStep(p)
    \/ \E pr \in ProspectInputs : addProspect(p, user, pr)
    \/ \E c \in ClientInputs : addClient(p, user, c)
    \/ \E u \in Users : login(u)

SpecTxn == Init /\ [][NextTxn]_vars

\* The transactional conversion while other calls use the same connection.
NextTxnConc ==
  \E p \in Procs :
    \/ \E id \in IdArgs, sd \in SaleDataInputs : beginTransaction(p, user, id, sd)
    \/ TransactionStep(p)
    \/ \E pr \in ProspectInputs : addProspect(p, user, pr)
    \/ \E c \in ClientInputs : addClient(p, user, c)
    \/ \E sa \in SaleInputs : addSale(p, user, sa)
    \/ \E fu \in FollowUpInputs : addFollowUp(p, user, fu)

SpecTxnConc == Init /\ [][NextTxnConc]_vars

\* The SalesProvider wrappers and the useNotifications effect both call
\* scheduleAllFollowUpNotifications; neither waits for the other.
NextSchedule ==
  \E k \in Callers :
    \/ \E followUps \in SUBSET DetailRows : scheduleAllFollowUpNotifications(k, followUps)
    \/ scheduleFollowUpNotification(k)

SpecSchedule == Init /\ [][NextSchedule]_vars

\* Sessions on one device: users sign out and in while the SalesProvider stays mounted;
\* a user signs out between operations, not in the middle of one.
NextContext ==
  \/ setupNotifications
  \/ \E u \in Users :
       \/ setUser(u)
       \/ loadDataResolve(u)
       \/ loadDataSetState(u)
  \/ \E p \in SeqProcs :
       \/ ContextIdle(p) /\ logout
       \/ ContextIdle(p) /\ user # NullId /\ \E c \in ClientInputs : addClient(p, user, c)
       \/ addClientSetState(p)

SpecContext == Init /\ [][NextContext]_vars

\* ================================================================ properties
\* Shorthands over a call record c (a call in flight or just returned).
HasReturned(c) == c.status \in {"ok", "failed"}
Succeeded(c) == c.status = "ok"
Failed(c) == c.status = "failed"

Ids(T) == {r.id : r \in T}

\* ---------------------------------------------------------------- C1
\* The store after a conversion of prospect P that started from store `pre`, when all
\* four steps took effect: one new Client with P's contact fields and owner, one new
\* Sale of that Client with the caller's values, and P Won.
ConversionApplied(c) ==
  LET pre == c.pre
      P == CHOOSE r \in pre.Prospects : r.id = c.args.prospectId
      sd == c.args.saleData
  IN \E cl \in Clients, sa \in Sales :
       /\ cl \notin pre.Clients
       /\ Clients = pre.Clients \cup {cl}
       /\ cl.userId = P.userId /\ cl.name = P.name /\ cl.phone = P.phone
       /\ cl.email = P.email /\ cl.company = P.company
       /\ sa \notin pre.Sales
       /\ Sales = pre.Sales \cup {sa}
       /\ sa.clientId = cl.id /\ sa.date = sd.date /\ sa.amount = sd.amount
       /\ sa.productOrService = sd.productOrService
       /\ Prospects = {IF r.id = P.id THEN [r EXCEPT !.status = "Won"] ELSE r : r \in pre.Prospects}

ConversionLeftNoTrace(c) ==
  /\ Clients = c.pre.Clients
  /\ Sales = c.pre.Sales
  /\ Prospects = c.pre.Prospects

\* C1: once convertProspectToClientAndRecordSale on an existing Prospect has returned,
\* whichever statement failed, the store holds either the complete {Client, Sale,
\* Won-Prospect} triple or exactly the Clients, Sales and Prospects it started with.
C1_ConversionAllOrNothing ==
  \A p \in Procs :
    ( /\ call[p].op = "convertProspectToClientAndRecordSale"
      /\ HasReturned(call[p])
      /\ call[p].args.prospectId \in Ids(call[p].pre.Prospects) )
    => (ConversionApplied(call[p]) \/ ConversionLeftNoTrace(call[p]))

\* ---------------------------------------------------------------- C2
ConversionsOf(prospectId) ==
  {p \in Procs : /\ call[p].op = "convertProspectToClientAndRecordSale"
                 /\ Succeeded(call[p])
                 /\ call[p].args.prospectId = prospectId}

\* Two returned conversions overlapped: neither started from a store that held the
\* other's Client.
Overlapped(p, q) ==
  /\ call[p].ret.client \notin call[q].pre.Clients
  /\ call[q].ret.client \notin call[p].pre.Clients

\* C2: two interleaved invocations of convertProspectToClientAndRecordSale on the same
\* prospectId create at most one Client and at most one Sale between them.
C2_NoDoubleConversion ==
  \A id \in IdArgs : \A p \in ConversionsOf(id), q \in ConversionsOf(id) :
    (p # q /\ Overlapped(p, q))
    => /\ call[p].ret.client = call[q].ret.client
       /\ call[p].ret.sale = call[q].ret.sale

\* ---------------------------------------------------------------- C3
\* C3: a recordNewCall or convertPhoneNumberToProspect call that fails at any of its
\* statements leaves the store as it was when the call started.
C3_CallWorkflowsAllOrNothing ==
  \A p \in Procs :
    ( /\ call[p].op \in {"recordNewCall", "convertPhoneNumberToProspect"}
      /\ Failed(call[p]) )
    => DB = call[p].pre

\* ---------------------------------------------------------------- C4
\* The PhoneNumber rows of table T stored for (userId, number).
PairRows(T, userId, number) == {r \in T : r.userId = userId /\ r.number = number}
LogsOf(T, phoneNumberId) == {l \in T : l.phoneNumberId = phoneNumberId}

\* C4: (userId, number) identifies at most one PhoneNumber row, and every completed
\* recordNewCall leaves exactly one row for its pair - the row that was there before, if
\* any - with lastCalledDate the date of this call and one more CallLog than before; so n
\* calls in a row leave one row, the last call's date and n CallLogs.
C4_OnePhoneNumberPerPair ==
  /\ \A r1 \in PhoneNumbers, r2 \in PhoneNumbers :
       (r1.userId = r2.userId /\ r1.number = r2.number) => r1 = r2
  /\ \A p \in Procs :
       (call[p].op = "recordNewCall" /\ Succeeded(call[p]))
       => LET a == call[p].args
              before == PairRows(call[p].pre.PhoneNumbers, a.userId, a.number)
              after == PairRows(PhoneNumbers, a.userId, a.number)
          IN /\ Cardinality(after) = 1
             /\ \A r \in after :
                  /\ r.lastCalledDate = a.logData.date
                  /\ \A b \in before : b.id = r.id
                  /\ Cardinality(LogsOf(CallLogs, r.id))
                       = Cardinality(LogsOf(call[p].pre.CallLogs, r.id)) + 1

\* A second call to a stored number, dated earlier than the first, has returned.
C4_Witness ==
  \E p \in Procs :
    /\ call[p].op = "recordNewCall" /\ Succeeded(call[p])
    /\ call[p].args.logData.date = "2025-01-01"
    /\ \E b \in PairRows(call[p].pre.PhoneNumbers, call[p].args.userId, call[p].args.number) :
         /\ b.lastCalledDate = "2025-01-02"
         /\ Cardinality(LogsOf(CallLogs, b.id)) = 2

\* ---------------------------------------------------------------- C5
\* Two returned recordNewCall calls for the same pair whose lookups both found no row.
Raced(p, q) ==
  /\ p # q
  /\ call[p].op = "recordNewCall" /\ call[q].op = "recordNewCall"
  /\ HasReturned(call[p]) /\ HasReturned(call[q])
  /\ call[p].args.userId = call[q].args.userId
  /\ call[p].args.number = call[q].args.number
  /\ call[p].loc.lookup = NullRow /\ call[q].loc.lookup = NullRow

\* C5: when two recordNewCall calls for a number that is not stored both look it up
\* before either inserts it, both return successfully and the store holds one PhoneNumber
\* row and two CallLog rows for the number.
C5_UniqueClashBecomesUpdate ==
  \A p \in Procs, q \in Procs :
    Raced(p, q)
    => /\ Succeeded(call[p]) /\ Succeeded(call[q])
       /\ LET rows == PairRows(PhoneNumbers, call[p].args.userId, call[p].args.number)
          IN /\ Cardinality(rows) = 1
             /\ \A r \in rows : Cardinality(LogsOf(CallLogs, r.id)) = 2

\* ---------------------------------------------------------------- C6
\* C6: a successful recordNewCall adds exactly one FollowUp (phoneNumber, id of the
\* number's row, date = nextFollowUpDate, not completed) when nextFollowUpDate is set and
\* none when it is null; for a number not stored before, with a follow-up date, the call
\* adds one PhoneNumber, one CallLog and one FollowUp.
C6_CallFollowUp ==
  \A p \in Procs :
    (call[p].op = "recordNewCall" /\ Succeeded(call[p]))
    => LET a == call[p].args
           pre == call[p].pre
           nfd == a.logData.nextFollowUpDate
           added == FollowUps \ pre.FollowUps
       IN /\ pre.FollowUps \subseteq FollowUps
          /\ (nfd = Null) => (added = {})
          /\ (nfd # Null) =>
               /\ Cardinality(added) = 1
               /\ \A f \in added :
                    /\ f.entityType = "phoneNumber"
                    /\ \E r \in PairRows(PhoneNumbers, a.userId, a.number) : f.entityId = r.id
                    /\ f.date = nfd
                    /\ f.isCompleted = 0
          /\ (nfd # Null /\ PairRows(pre.PhoneNumbers, a.userId, a.number) = {}) =>
               /\ Cardinality(PhoneNumbers) = Cardinality(pre.PhoneNumbers) + 1
               /\ Cardinality(CallLogs) = Cardinality(pre.CallLogs) + 1
               /\ Cardinality(FollowUps) = Cardinality(pre.FollowUps) + 1

\* A call with a follow-up date to a number not stored before has returned, in a store
\* that held another FollowUp already.
C6_Witness ==
  \E p \in Procs :
    /\ call[p].op = "recordNewCall" /\ Succeeded(call[p])
    /\ call[p].args.logData.nextFollowUpDate = "2025-02-01"
    /\ PairRows(call[p].pre.PhoneNumbers, call[p].args.userId, call[p].args.number) = {}
    /\ call[p].pre.FollowUps # {}

\* ---------------------------------------------------------------- C7
AddressedTo(f, entityId, entityType) == f.entityId = entityId /\ f.entityType = entityType

\* C7: a successful convertPhoneNumberToProspect(id, data) adds one Prospect with the
\* number as phone and the number's owner, flags the PhoneNumber (isProspect = 1,
\* prospectId = the new id), completes every FollowUp addressed to (id, phoneNumber) and
\* changes no other FollowUp; with an id that matches no PhoneNumber it fails with
\* 'Phone number not found' and changes nothing.
C7_PhoneNumberConversion ==
  \A p \in Procs :
    (call[p].op = "convertPhoneNumberToProspect" /\ HasReturned(call[p]))
    => LET pre == call[p].pre
           id == call[p].args.phoneNumberId
       IN IF id \in Ids(pre.PhoneNumbers)
            THEN /\ Succeeded(call[p])
                 /\ \E n \in pre.PhoneNumbers, P \in Prospects :
                      /\ n.id = id
                      /\ P \notin pre.Prospects
                      /\ Prospects = pre.Prospects \cup {P}
                      /\ P.phone = n.number /\ P.userId = n.userId
                      /\ PhoneNumbers = (pre.PhoneNumbers \ {n})
                                          \cup {[n EXCEPT !.isProspect = 1, !.prospectId = P.id]}
                 /\ Ids(FollowUps) = Ids(pre.FollowUps)
                 /\ \A f \in pre.FollowUps :
                      IF AddressedTo(f, id, "phoneNumber")
                        THEN [f EXCEPT !.isCompleted = 1] \in FollowUps
                        ELSE f \in FollowUps
                 /\ Clients = pre.Clients /\ Sales = pre.Sales /\ CallLogs = pre.CallLogs
            ELSE /\ Failed(call[p])
                 /\ call[p].err = "Phone number not found"
                 /\ DB = pre

\* A conversion has returned that completed an open FollowUp of the number while an open
\* FollowUp addressed to a client or prospect with the same numeric id stayed open.
C7_Witness ==
  \E p \in Procs :
    /\ call[p].op = "convertPhoneNumberToProspect" /\ Succeeded(call[p])
    /\ \E f \in call[p].pre.FollowUps, g \in FollowUps :
         /\ AddressedTo(f, call[p].args.phoneNumberId, "phoneNumber")
         /\ f.isCompleted = 0
         /\ g.entityId = call[p].args.phoneNumberId
         /\ g.entityType # "phoneNumber"
         /\ g.isCompleted = 0

\* ---------------------------------------------------------------- C8
\* The store after completeFollowUp(id): row id completed, nothing else touched.
CompletedOnce(c) ==
  /\ FollowUps = {IF f.id = c.args.followUpId THEN [f EXCEPT !.isCompleted = 1] ELSE f :
                    f \in c.pre.FollowUps}
  /\ Clients = c.pre.Clients /\ Prospects = c.pre.Prospects /\ Sales = c.pre.Sales
  /\ PhoneNumbers = c.pre.PhoneNumbers /\ CallLogs = c.pre.CallLogs

AlreadyCompleted(c) ==
  \A f \in c.pre.FollowUps : f.id = c.args.followUpId => f.isCompleted = 1

\* C8: completeFollowUp(id) sets isCompleted = 1 on row id and changes nothing else, a
\* second completeFollowUp(id) leaves the store exactly as the first left it, and no step
\* of any repository function takes a FollowUp's isCompleted from 1 back to 0.
C8_CompleteIdempotentOneWay ==
  /\ [](\A p \in Procs :
          (call[p].op = "completeFollowUp" /\ Succeeded(call[p]))
          => /\ CompletedOnce(call[p])
             /\ AlreadyCompleted(call[p]) => DB = call[p].pre)
  /\ [][\A f \in FollowUps, g \in FollowUps' :
          (f.id = g.id /\ f.isCompleted = 1) => g.isCompleted = 1]_vars

\* completeFollowUp has returned on a FollowUp that was completed already.
C8_Witness ==
  \E p \in Procs :
    /\ call[p].op = "completeFollowUp" /\ Succeeded(call[p])
    /\ \E f \in call[p].pre.FollowUps : f.id = call[p].args.followUpId /\ f.isCompleted = 1

\* ---------------------------------------------------------------- C9
\* The users owning the row a FollowUp's (entityId, entityType) pair resolves to.
Referents(f) ==
  CASE f.entityType = "client" -> {r \in Clients : r.id = f.entityId}
    [] f.entityType = "prospect" -> {r \in Prospects : r.id = f.entityId}
    [] f.entityType = "phoneNumber" -> {r \in PhoneNumbers : r.id = f.entityId}

FollowUpOwners(f) == {r.userId : r \in Referents(f)}
SaleOwners(clientId) == {c.userId : c \in {r \in Clients : r.id = clientId}}
CallLogOwners(phoneNumberId) == {n.userId : n \in {r \in PhoneNumbers : r.id = phoneNumberId}}

\* C9: every list query for user A returns all rows owned by A and no row owned by
\* another user B, also when rows of different tables share an id.
C9_ListsIsolatedByOwner ==
  \A A \in Users :
    /\ \A r \in Clients : r.userId = A => r \in getClients(A)
    /\ \A r \in getClients(A) : r.userId = A
    /\ \A r \in Prospects : r.userId = A => r \in getProspects(A)
    /\ \A r \in getProspects(A) : r.userId = A
    /\ \A r \in PhoneNumbers : r.userId = A => r \in getPhoneNumbers(A)
    /\ \A r \in getPhoneNumbers(A) : r.userId = A
    /\ \A s \in Sales : A \in SaleOwners(s.clientId) => s.id \in Ids(getSales(A))
    /\ \A r \in getSales(A) : SaleOwners(r.clientId) = {A}
    /\ \A l \in CallLogs : A \in CallLogOwners(l.phoneNumberId) => l.id \in Ids(getCallLogs(A))
    /\ \A r \in getCallLogs(A) : CallLogOwners(r.phoneNumberId) = {A}
    /\ \A f \in FollowUps : A \in FollowUpOwners(f) => f \in getFollowUps(A)
    /\ \A f \in getFollowUps(A) : FollowUpOwners(f) = {A}

\* A FollowUp of user A's phone number whose entityId is also the id of a Client of
\* user B: A's list holds it, B's does not.
C9_Witness ==
  \E f \in FollowUps, n \in PhoneNumbers, c \in Clients :
    /\ f.entityType = "phoneNumber" /\ f.entityId = n.id
    /\ c.id = n.id
    /\ c.userId # n.userId
    /\ f \in getFollowUps(n.userId)
    /\ f \notin getFollowUps(c.userId)

\* ---------------------------------------------------------------- C10
UpdateDeleteFunctions ==
  {"updateClient", "deleteClient", "updateProspect", "updateProspectStatus", "deleteProspect",
   "updateSale", "deleteSale", "updateFollowUp", "completeFollowUp", "deleteFollowUp",
   "updateCallLog", "deleteCallLog"}

\* C10: the by-id queries, asked on behalf of signed-in user A, return no row owned by
\* another user B, and an update or delete by id issued on behalf of A leaves every
\* Client and Prospect owned by B as it was.
C10_ByIdScopedByOwner ==
  \A A \in Users : \A B \in Users \ {A} :
    /\ user = A =>
         \A id \in IdArgs :
           /\ \A r \in getClientById(id) : r.userId # B
           /\ \A s \in getSalesByClient(id) : B \notin SaleOwners(s.clientId)
           /\ \A t \in EntityTypes : \A f \in getFollowUpsByEntity(id, t) : B \notin FollowUpOwners(f)
           /\ \A l \in getCallLogsByPhoneNumber(id) : B \notin CallLogOwners(l.phoneNumberId)
    /\ \A p \in Procs :
         (call[p].op \in UpdateDeleteFunctions /\ Succeeded(call[p]) /\ call[p].actor = A)
         => /\ {r \in call[p].pre.Clients : r.userId = B} \subseteq Clients
            /\ {r \in call[p].pre.Prospects : r.userId = B} \subseteq Prospects

\* ---------------------------------------------------------------- C11
\* C11: after a successful deleteClient(c) the store is the store the call started from
\* minus Client c, the Sales with clientId = c and the FollowUps addressed to
\* (c, client); after a successful deleteProspect(q) it is that store minus Prospect q
\* and the FollowUps addressed to (q, prospect).  Every other row is as it was, the
\* FollowUps with the same entityId and another entityType included.
C11_DeleteCascade ==
  \A p \in Procs :
    /\ (call[p].op = "deleteClient" /\ Succeeded(call[p])) =>
         LET c == call[p].args.clientId
             pre == call[p].pre
         IN /\ Clients = {r \in pre.Clients : r.id # c}
            /\ Sales = {r \in pre.Sales : r.clientId # c}
            /\ FollowUps = {r \in pre.FollowUps : ~(r.entityId = c /\ r.entityType = "client")}
            /\ Prospects = pre.Prospects
            /\ PhoneNumbers = pre.PhoneNumbers
            /\ CallLogs = pre.CallLogs
    /\ (call[p].op = "deleteProspect" /\ Succeeded(call[p])) =>
         LET q == call[p].args.prospectId
             pre == call[p].pre
         IN /\ Prospects = {r \in pre.Prospects : r.id # q}
            /\ FollowUps = {r \in pre.FollowUps : ~(r.entityId = q /\ r.entityType = "prospect")}
            /\ Clients = pre.Clients
            /\ Sales = pre.Sales
            /\ PhoneNumbers = pre.PhoneNumbers
            /\ CallLogs = pre.CallLogs

\* A deleteClient(c) has removed an existing Client c and its FollowUp, and a FollowUp
\* with entityId = c addressed to another entity type is still stored.
C11_Witness ==
  \E p \in Procs :
    /\ call[p].op = "deleteClient" /\ Succeeded(call[p])
    /\ call[p].args.clientId \in Ids(call[p].pre.Clients)
    /\ call[p].args.clientId \notin Ids(Clients)
    /\ \E f \in call[p].pre.FollowUps :
         /\ f.entityId = call[p].args.clientId
         /\ f.entityType # "client"
         /\ f \in FollowUps

\* ---------------------------------------------------------------- C12
\* C12: when deleteClient(c) (deleteProspect(q)) fails at one of its DELETE statements,
\* Client c (Prospect q), the Sales of c and the FollowUps addressed to it are the same
\* rows as when the call started.
C12_DeleteAllOrNothing ==
  \A p \in Procs :
    /\ (call[p].op = "deleteClient" /\ Failed(call[p])) =>
         LET c == call[p].args.clientId
             pre == call[p].pre
         IN /\ {r \in Clients : r.id = c} = {r \in pre.Clients : r.id = c}
            /\ {r \in Sales : r.clientId = c} = {r \in pre.Sales : r.clientId = c}
            /\ {r \in FollowUps : r.entityId = c /\ r.entityType = "client"}
                 = {r \in pre.FollowUps : r.entityId = c /\ r.entityType = "client"}
    /\ (call[p].op = "deleteProspect" /\ Failed(call[p])) =>
         LET q == call[p].args.prospectId
             pre == call[p].pre
         IN /\ {r \in Prospects : r.id = q} = {r \in pre.Prospects : r.id = q}
            /\ {r \in FollowUps : r.entityId = q /\ r.entityType = "prospect"}
                 = {r \in pre.FollowUps : r.entityId = q /\ r.entityType = "prospect"}

\* ---------------------------------------------------------------- C13
\* The step is the status UPDATE that ends a successful conversion of Prospect id.
ConversionWins(id) ==
  \E p \in Procs :
    /\ At(p, "convertProspectToClientAndRecordSale", "updateStatus")
    /\ call[p].args.prospectId = id
    /\ Succeeded(call'[p])

\* C13: in every step, a Prospect that has status Won after the step and did not have it
\* before (or did not exist) got it from the last statement of a successful
\* convertProspectToClientAndRecordSale on that Prospect, and a Prospect that has status
\* Won before the step and still exists after it is still Won.
C13_WonOnlyByConversion ==
  [][ \A r \in Prospects' :
        /\ ( /\ r.status = "Won"
             /\ ~ \E o \in Prospects : o.id = r.id /\ o.status = "Won" )
           => ConversionWins(r.id)
        /\ (\E o \in Prospects : o.id = r.id /\ o.status = "Won") => r.status = "Won"
    ]_vars

\* ---------------------------------------------------------------- C14
\* C14: in every reachable state every Sale's clientId is the id of a stored Client.
C14_SaleClientExists ==
  \A s \in Sales : \E c \in Clients : c.id = s.clientId

\* ---------------------------------------------------------------- C15
\* C15: a signup with a stored username fails with "Username already exists" and leaves
\* table Users as it was; a signup that succeeds has added exactly one User, with the
\* given username and passwordHash = hash(password), which is not the raw password;
\* no two Users share a username; and a signup that reports "Username already exists"
\* was given a username that was stored when it was called.
C15_Signup ==
  /\ \A a \in UserRows : \A b \in UserRows : a.username = b.username => a = b
  /\ \A p \in Procs :
       (call[p].op = "signup" /\ HasReturned(call[p])) =>
         LET old == call[p].pre.Users
             taken == \E u \in old : u.username = call[p].args.username
         IN /\ taken => /\ Failed(call[p])
                        /\ call[p].err = "Username already exists"
                        /\ UserRows = old
            /\ Succeeded(call[p]) =>
                 \E n \in UserRows \ old :
                   /\ UserRows = old \cup {n}
                   /\ n.username = call[p].args.username
                   /\ n.passwordHash = "sha256(" \o call[p].args.password \o ")"
                   /\ n.passwordHash # call[p].args.password
            /\ (Failed(call[p]) /\ call[p].err = "Username already exists") => taken

\* ---------------------------------------------------------------- C16
\* The stored Users a signin with these arguments is entitled to.
Entitled(T, args) ==
  {u \in T : u.username = args.username
             /\ u.passwordHash = "sha256(" \o args.password \o ")"}

\* C16: signin returns a User exactly when a stored User has that username and the hash
\* of that password, and then returns that User; otherwise it fails with "Invalid
\* credentials", whether the username is unknown or the password is wrong; it leaves
\* the store as it was.
C16_Signin ==
  \A p \in Procs :
    (call[p].op = "signin" /\ HasReturned(call[p])) =>
      /\ Succeeded(call[p]) <=> Entitled(call[p].pre.Users, call[p].args) # {}
      /\ Succeeded(call[p]) => call[p].ret \in Entitled(call[p].pre.Users, call[p].args)
      /\ Failed(call[p]) => call[p].err = "Invalid credentials"
      /\ DB = call[p].pre

\* A signin with the username of a stored User and another password has failed.
C16_Witness ==
  \E p \in Procs :
    /\ call[p].op = "signin" /\ Failed(call[p])
    /\ call[p].err = "Invalid credentials"
    /\ \E u \in UserRows : u.username = call[p].args.username

\* ---------------------------------------------------------------- C17
\* A repository call is issued in this step by process p.
Issued(p) == calls' = calls + 1 /\ call'[p] # call[p]

\* C17: a repository call issued while initDatabase has not run to its end with the
\* database opened and the tables created - not called yet, still running, failed, or
\* returned on web - fails with "Database not initialized" and leaves every table as
\* it was.
C17_NotInitialized ==
  [][ \A p \in Procs :
        (Issued(p) /\ initPc # "done") =>
          /\ Failed(call'[p])
          /\ call'[p].err = "Database not initialized"
          /\ tables' = tables
          /\ UserRows' = UserRows
    ]_vars

\* ---------------------------------------------------------------- C19
\* The Sales of the clients of userId, all of them or those dated within [from, to].
SalesOfUser(userId, ranged, from, to) ==
  {s \in Sales :
     /\ \E c \in Clients : c.id = s.clientId /\ c.userId = userId
     /\ ranged => (DateIndex(from) <= DateIndex(s.date) /\ DateIndex(s.date) <= DateIndex(to))}

RECURSIVE SumOfAmounts(_)
SumOfAmounts(S) ==
  IF S = {} THEN 0 ELSE LET s == CHOOSE x \in S : TRUE IN s.amount + SumOfAmounts(S \ {s})

\* The number x is the quotient a / b.
IsQuotient(x, a, b) == x.den # 0 /\ x.num * b = a * x.den
IsZero(x) == x.den # 0 /\ x.num = 0

\* C19: for every user and date range, in every reachable store, getAnalyticsData yields
\* numbers: averageSaleAmount is 0 when the user has no Sales in range and totalRevenue /
\* count otherwise; conversionRate is 0 when the user has no Prospects and
\* (Won Prospects / Prospects) * 100 otherwise.
C19_AnalyticsZeroGuard ==
  \A u \in Users : \A r \in DateRanges :
    LET a == getAnalyticsData(u, r.startDate, r.endDate)
        S == SalesOfUser(u, r # NoRange, r.startDate, r.endDate)
        P == {q \in Prospects : q.userId = u}
        W == {q \in P : q.status = "Won"}
    IN /\ IF S = {} THEN IsZero(a.averageSaleAmount)
                    ELSE IsQuotient(a.averageSaleAmount, SumOfAmounts(S), Cardinality(S))
       /\ IF P = {} THEN IsZero(a.conversionRate)
                    ELSE IsQuotient(a.conversionRate, Cardinality(W) * 100, Cardinality(P))

\* A user has a Sale in range, and two Prospects of which one is Won (rate 50), while
\* another user has neither Sales nor Prospects.
C19_Witness ==
  \E u \in Users : \E v \in Users \ {u} :
    /\ getAnalyticsData(u, "", "").averageSaleAmount = [num |-> 100, den |-> 1]
    /\ getAnalyticsData(u, "", "").conversionRate = [num |-> 50, den |-> 1]
    /\ SalesOfUser(v, FALSE, "", "") = {}
    /\ {q \in Prospects : q.userId = v} = {}
    /\ getAnalyticsData(v, "", "").averageSaleAmount = [num |-> 0, den |-> 1]

\* ---------------------------------------------------------------- C20
\* The products of the result set, the position of each one's first row, its revenue
\* and its number of rows.
ProductsSold == {analyticsSales[i].productOrService : i \in 1..Len(analyticsSales)}
RowsOf(product) == {i \in 1..Len(analyticsSales) : analyticsSales[i].productOrService = product}
FirstRow(product) == CHOOSE i \in RowsOf(product) : \A j \in RowsOf(product) : i <= j
RECURSIVE SumRows(_)
SumRows(I) ==
  IF I = {} THEN 0
  ELSE LET i == CHOOSE x \in I : TRUE IN analyticsSales[i].amount + SumRows(I \ {i})
Revenue(product) == SumRows(RowsOf(product))

\* Product a ranks before product b: more revenue, or the same revenue and seen first.
RanksBefore(a, b) ==
  \/ Revenue(a) > Revenue(b)
  \/ Revenue(a) = Revenue(b) /\ FirstRow(a) < FirstRow(b)

\* C20: topProducts has min(5, number of distinct products) entries, each for a product
\* sold with its total revenue and its number of Sales; the entries are in order of
\* non-increasing revenue with equal revenues in order of first occurrence; and every
\* product left out ranks after every entry.
C20_TopProducts ==
  analyticsPc = "done" =>
    LET n == Len(topProducts) IN
      /\ n = (IF Cardinality(ProductsSold) < 5 THEN Cardinality(ProductsSold) ELSE 5)
      /\ \A i \in 1..n :
           /\ topProducts[i].product \in ProductsSold
           /\ topProducts[i].revenue = Revenue(topProducts[i].product)
           /\ topProducts[i].count = Cardinality(RowsOf(topProducts[i].product))
      /\ \A i \in 1..n : \A j \in 1..n :
           i < j => RanksBefore(topProducts[i].product, topProducts[j].product)
      /\ \A q \in ProductsSold \ {topProducts[i].product : i \in 1..n} :
           \A i \in 1..n : RanksBefore(topProducts[i].product, q)

\* Six products were sold, two of the five entries have the same revenue, and the
\* product left out has the revenue of the last entry.
C20_Witness ==
  /\ analyticsPc = "done"
  /\ Cardinality(ProductsSold) = 6
  /\ Len(topProducts) = 5
  /\ topProducts[1].revenue = topProducts[2].revenue
  /\ \E q \in ProductsSold :
       /\ \A i \in 1..5 : topProducts[i].product # q
       /\ Revenue(q) = topProducts[5].revenue

\* ---------------------------------------------------------------- C18
\* Nothing is in flight: no repository call, no wrapper, no notification effect.
Quiescent ==
  /\ \A p \in Procs : call[p].status # "running" /\ ~WrapperPending(p)
  /\ ctxPc = "idle"
  /\ ~effectPending

\* The SalesProvider operations that add, change, complete or delete FollowUps.
FollowUpOperations ==
  {"addFollowUp", "updateFollowUp", "completeFollowUp", "deleteFollowUp",
   "convertPhoneNumberToProspect", "deleteClient", "deleteProspect"}

TouchedFollowUps(c) ==
  \/ c.op \in FollowUpOperations
  \/ c.op = "recordNewCall" /\ c.args.logData.nextFollowUpDate \notin {Null, ""}

\* C18: when the system is quiescent after a successful operation that touches
\* FollowUps, every FollowUp in the list last handed to
\* scheduleAllFollowUpNotifications is still stored, and every stored pending FollowUp
\* addressed to a row of the signed-in user is in that list.
C18_BridgeIsFresh ==
  (Quiescent /\ \E p \in Procs : Succeeded(call[p]) /\ TouchedFollowUps(call[p]))
  => /\ \A f \in scheduled : \E g \in FollowUps : g.id = f.id
     /\ \A g \in FollowUps :
          (g.isCompleted = 0 /\ user \in FollowUpOwners(g))
          => \E f \in scheduled : f.id = g.id

\* ---------------------------------------------------------------- C21
\* The partial-update functions, with the table each one writes and the name of its id
\* argument.
PartialUpdates ==
  [updateClient   |-> [table |-> "Clients",   id |-> "clientId"],
   updateProspect |-> [table |-> "Prospects", id |-> "prospectId"],
   updateSale     |-> [table |-> "Sales",     id |-> "saleId"],
   updateCallLog  |-> [table |-> "CallLogs",  id |-> "callLogId"]]

\* Row r of the table as it must read after the call c: the supplied fields overwritten
\* when r is the addressed row, r itself otherwise.
Overwritten(c, r) ==
  [k \in DOMAIN r |->
     IF r.id = c.args[PartialUpdates[c.op].id] /\ k \in DOMAIN c.args.updates
       THEN c.args.updates[k]
       ELSE r[k]]

\* C21: a partial update (updateClient, updateProspect, updateSale, updateCallLog) returns
\* without error; with no field supplied, or with an id that matches no row, the store is
\* as it was when the call started; otherwise exactly the supplied fields of exactly the
\* addressed row are overwritten and every other row and table is unchanged.
C21_PartialUpdate ==
  \A p \in Procs :
    (call[p].op \in DOMAIN PartialUpdates /\ HasReturned(call[p]))
    => LET c == call[p]
           t == PartialUpdates[c.op].table
       IN  /\ Succeeded(c)
           /\ DB[t] = {Overwritten(c, r) : r \in c.pre[t]}
           /\ \A u \in TableNames \ {t} : DB[u] = c.pre[u]
           /\ (DOMAIN c.args.updates = {}
               \/ c.args[PartialUpdates[c.op].id] \notin Ids(c.pre[t])) => DB = c.pre

\* A partial update with a supplied field has returned on a row of a table that holds
\* another row too.
C21_Witness ==
  \E p \in Procs :
    /\ call[p].op \in DOMAIN PartialUpdates /\ Succeeded(call[p])
    /\ DOMAIN call[p].args.updates # {}
    /\ LET T == call[p].pre[PartialUpdates[call[p].op].table] IN
         /\ call[p].args[PartialUpdates[call[p].op].id] \in Ids(T)
         /\ Cardinality(T) > 1

\* ---------------------------------------------------------------- C22
\* C22: updateFollowUp(id, data) sets the date of FollowUp id to data.date whenever date is
\* supplied and its notes to data.notes whenever notes is supplied, the empty string
\* included, and changes no other field (entityId, entityType, isCompleted, createdAt) and
\* no other row.
C22_UpdateFollowUpSupplied ==
  \A p \in Procs :
    (call[p].op = "updateFollowUp" /\ HasReturned(call[p]))
    => /\ Succeeded(call[p])
       /\ FollowUps =
            {[k \in DOMAIN f |->
                IF f.id = call[p].args.followUpId /\ k \in DOMAIN call[p].args.data
                  THEN call[p].args.data[k]
                  ELSE f[k]] : f \in call[p].pre.FollowUps}

\* ---------------------------------------------------------------- C23
\* What a returned add call hands back, and the table each entity was inserted into.
AddResults(c) ==
  CASE c.op \in {"addClient"}   -> {[table |-> "Clients", entity |-> c.ret]}
    [] c.op \in {"addProspect", "convertPhoneNumberToProspect"}
                                -> {[table |-> "Prospects", entity |-> c.ret]}
    [] c.op = "addSale"         -> {[table |-> "Sales", entity |-> c.ret]}
    [] c.op = "addFollowUp"     -> {[table |-> "FollowUps", entity |-> c.ret]}
    [] c.op = "convertProspectToClientAndRecordSale"
                                -> {[table |-> "Clients", entity |-> c.ret.client],
                                    [table |-> "Sales", entity |-> c.ret.sale]}
    [] c.op = "recordNewCall"   -> {[table |-> "CallLogs", entity |-> c.ret.callLog]}
    [] OTHER                    -> {}

\* C23: no identifier is assigned twice in a table, rows deleted since included: every id
\* ever inserted is at most the table's sequence value, the sequence never decreases, and
\* a row that appears in a table has an id above the sequence value of the moment before;
\* and the entity an add call returns is the row it stored, under an id no row of the table
\* had when the call started.
C23_IdsNeverReused ==
  /\ [](\A t \in TableNames : \A r \in DB[t] : r.id <= seq[t])
  /\ [][\A t \in TableNames :
          /\ seq'[t] >= seq[t]
          /\ \A r \in DB'[t] : (r.id \notin {s.id : s \in DB[t]}) => r.id > seq[t]]_vars
  /\ [](\A p \in Procs :
          Succeeded(call[p]) =>
            \A a \in AddResults(call[p]) :
              /\ a.entity \in DB[a.table]
              /\ a.entity.id \notin {s.id : s \in call[p].pre[a.table]})

\* addClient has returned the only Client stored, the Client with id 1 having been
\* deleted before.
C23_Witness ==
  \E p \in Procs :
    /\ call[p].op = "addClient" /\ Succeeded(call[p])
    /\ call[p].ret.id = 2
    /\ {r.id : r \in Clients} = {2}

\* ---------------------------------------------------------------- C24
\* The FollowUps whose (entityId, entityType) names a stored row of the table of that
\* type, owned by userId.
ResolvedFor(userId) ==
  {f \in FollowUps :
     \E r \in (CASE f.entityType = "client" -> Clients
                 [] f.entityType = "prospect" -> Prospects
                 [] f.entityType = "phoneNumber" -> PhoneNumbers) :
       r.id = f.entityId /\ r.userId = userId}

\* C24: getFollowUpsWithDetails(userId) returns exactly the FollowUps whose referent
\* exists in the table named by entityType and is owned by userId, whatever the
\* referent's field values.
C24_DetailsAreResolved ==
  \A u \in Users :
    {d.id : d \in getFollowUpsWithDetails(u)} = {f.id : f \in ResolvedFor(u)}

\* ---------------------------------------------------------------- C27
\* C27: every PhoneNumber with isProspect = 1 has a prospectId that is the id of a stored
\* Prospect of the same user, every PhoneNumber with isProspect = 0 has no prospectId,
\* and isProspect never goes from 1 back to 0.
C27_PhoneNumberProspectLink ==
  /\ [](\A n \in PhoneNumbers :
          /\ n.isProspect = 1 =>
               /\ n.prospectId # NullId
               /\ \E q \in Prospects : q.id = n.prospectId /\ q.userId = n.userId
          /\ n.isProspect = 0 => n.prospectId = NullId)
  /\ [][\A n \in PhoneNumbers, m \in PhoneNumbers' :
          (n.id = m.id /\ n.isProspect = 1) => m.isProspect = 1]_vars

\* ---------------------------------------------------------------- C25
\* C25: in the transactional variant, when the conversion has returned no transaction
\* is open on the connection, and when it failed (prospect missing, or the Client
\* insert, the Sale insert, the status update or COMMIT rejected) the store is as it was
\* when the call started: no Client or Sale of the call persists and the Prospect's
\* status is unchanged.
C25_RollbackOnFailure ==
  \A p \in Procs :
    (call[p].op = TxConvert /\ HasReturned(call[p]))
    => /\ ~txn.open
       /\ Failed(call[p]) =>
            /\ Clients = call[p].pre.Clients
            /\ Sales = call[p].pre.Sales
            /\ Prospects = call[p].pre.Prospects

\* A transactional conversion has failed after its Client and Sale inserts.
C25_Witness ==
  \E p \in Procs :
    /\ call[p].op = TxConvert /\ Failed(call[p])
    /\ "newSale" \in DOMAIN call[p].loc

\* ---------------------------------------------------------------- C26
\* C26: in the transactional variant, the row of every addClient, addProspect, addSale
\* or addFollowUp that returned successfully is stored, whatever a conversion that was
\* between its BEGIN and its COMMIT / ROLLBACK at the time came to; and no conversion
\* fails because another one's transaction is open.
C26_TransactionIsolated ==
  \A p \in Procs :
    /\ (call[p].op \in {"addClient", "addProspect", "addSale", "addFollowUp"}
        /\ Succeeded(call[p]))
       => \A a \in AddResults(call[p]) : a.entity \in DB[a.table]
    /\ (call[p].op = TxConvert /\ Failed(call[p]))
       => call[p].err \in {"Prospect not found", "storage error"}

\* ---------------------------------------------------------------- C28
\* C28: once every scheduleAllFollowUpNotifications call has finished, no FollowUp id
\* has more than one reminder, and the FollowUps that have one are exactly the pending
\* ones with a future date in the list handed to the call that started last.
C28_OneReminderPerFollowUp ==
  (\A k \in Callers : sched[k].pc = "idle")
  => /\ \A id \in BagToSet(reminders) : CopiesIn(id, reminders) = 1
     /\ BagToSet(reminders) = {f.id : f \in {g \in scheduled : g.isCompleted = 0 /\ InFuture(g.date)}}

\* ---------------------------------------------------------------- C30
\* C30: once a SalesProvider operation has completed (repository call returned, wrapper
\* run to its end), the lists in memory hold the rows the store queries return for the
\* signed-in user at that moment; in particular no FollowUp addressed to a deleted
\* client is left in followUps or followUpsWithDetails.
C30_ListsMatchStore ==
  (/\ \A p \in Procs : call[p].status # "running" /\ ~WrapperPending(p)
   /\ ctxPc = "idle"
   /\ \E p \in Procs : Succeeded(call[p]))
  => /\ lists.clients = {c \in Clients : c.userId = user}
     /\ lists.prospects = {r \in Prospects : r.userId = user}
     /\ lists.sales = getSales(user)
     /\ lists.followUps = getFollowUps(user)
     /\ followUpsWithDetails = getFollowUpsWithDetails(user)
     /\ lists.phoneNumbers = {n \in PhoneNumbers : n.userId = user}
     /\ lists.callLogs = getCallLogs(user)

\* ---------------------------------------------------------------- C29
\* C29: when no user is signed in and no loadData is in flight, the seven lists of the
\* SalesProvider are empty; and while a user is signed in, the lists hold no row owned by
\* another user.
C29_NoDataWithoutUser ==
  /\ (user = NullId /\ \A u \in Users : load[u].pc = "idle")
     => lists = EmptyLists /\ followUpsWithDetails = {}
  /\ user # NullId
     => /\ \A c \in lists.clients : c.userId = user
        /\ \A r \in lists.prospects : r.userId = user
        /\ \A n \in lists.phoneNumbers : n.userId = user

====
